---- MODULE Spec2Model ----
(***************************************************************************)
(* Model of api_bb: the Banco do Brasil Accountability V3 client.          *)
(*                                                                         *)
(* One client object (self) with its OAuth2 token cache, the operations    *)
(* of the two client classes as the requests they send, and the HTTP       *)
(* exchange of one operation call as a sequence of steps:                  *)
(*   Call -> (TokenResponse) -> SendRequest -> DataResponse.               *)
(* The shaping of a response body (_handle_results) is also followed       *)
(* statement by statement, on response bodies of its own.                  *)
(*                                                                         *)
(* Python values: a str is a TLA+ string, except where the code looks at   *)
(* its characters (strptime, re.sub), where the input is the sequence of   *)
(* its characters; None is the string "None"; a dict is a function.        *)
(***************************************************************************)
EXTENDS Integers, Sequences, FiniteSets, TLC

VARIABLES
  client,       \* the client object (self): its class and its attributes
  environ,      \* os.environ: the BB_API_* variables that are set
  construction, \* the constructor call made, and what it raised
  clock,        \* datetime.datetime.now(), in seconds
  pc,           \* per thread: where its operation call stands
  call,         \* per thread: the operation called, its arguments, and whether
                \* the previous call of the thread ended on a rejected token request
  locals,       \* per thread: the locals of _check_and_update_access_token
  op_token,     \* per thread: the local access_token of the operation
  request,      \* per thread: the data-plane request sent by this call
  res,          \* per thread: the last HTTP response received by this call
  outcome,      \* per thread: what the call returned or raised
  traffic,      \* per thread: the requests this call has issued, by plane
  oauth,        \* the identity provider: the last token it granted, and when
  shaping       \* a call of _handle_results on its own: its arguments, its
                \* local df, and the statement it has reached

vars == <<client, environ, construction, clock, pc, call, locals, op_token,
          request, res, outcome, traffic, oauth, shaping>>

----------------------------------------------------------------------------
(* Python values *)

None == "None"
EmptyDict == <<>>
\* a keyword argument of requests.request that the call does not pass
NotPassed == <<>>
\* an attribute that was never assigned (reading it raises AttributeError)
Unset == "<unset>"

Has(d, k) == k \in DOMAIN d
Get(d, k) == IF Has(d, k) THEN d[k] ELSE None

RECURSIVE Join(_)
\* "".join(cs)
Join(cs) == IF cs = <<>> THEN "" ELSE Head(cs) \o Join(Tail(cs))

Digits == <<"0", "1", "2", "3", "4", "5", "6", "7", "8", "9">>
IsDigit(c) == \E i \in 1..10 : Digits[i] = c
DigitValue(c) == (CHOOSE i \in 1..10 : Digits[i] = c) - 1

RECURSIVE ParseInt(_)
\* int(cs) of a sequence of digit characters
ParseInt(cs) ==
  IF cs = <<>> THEN 0
  ELSE ParseInt(SubSeq(cs, 1, Len(cs) - 1)) * 10 + DigitValue(cs[Len(cs)])

RECURSIVE ZeroPad(_, _)
\* "%0<w>d" % n
ZeroPad(n, w) ==
  IF w = 0 THEN "" ELSE ZeroPad(n \div 10, w - 1) \o Digits[(n % 10) + 1]

----------------------------------------------------------------------------
(* common.py *)

_dese_oauth_domain == "https://oauth.desenv.bb.com.br"
_homo_oauth_domain == "https://oauth.hm.bb.com.br"
_homo_alt_oauth_domain == "https://oauth.sandbox.bb.com.br"
_prod_oauth_domain == "https://oauth.bb.com.br"

_dese_api_domain == "https://api.desenv.bb.com.br"
_homo_api_domain == "https://api.hm.bb.com.br"
_homo_alt_api_domain == "https://api.sandbox.bb.com.br"
_prod_api_domain == "https://api.bb.com.br"

\* timedelta(minutes=10), in seconds
_time_between_access_token_requests == 600

Ambiente == {"DESENVOLVIMENTO", "HOMOLOGACAO", "HOMOLOGACAO_ALTERNATIVO", "PRODUCAO"}

\* _get_headers leaving the token out
_get_headers_no_token(token) == ("Authorization" :> "Bearer ")

\* _get_headers
_get_headers(token) == ("Authorization" :> ("Bearer " \o token))

\* re.sub(r"\s", "", v): the white space removed, the other symbols kept
_handle_numeric_string_with_symbols_strips_spaces(v) ==
  Join(SelectSeq(v, LAMBDA c : c # " "))

\* re.sub(r"\D", "", v), v given as its characters
_handle_numeric_string_with_symbols(v) == Join(SelectSeq(v, IsDigit))

\* datetime.strptime(v, "%Y-%m-%d"), v given as its characters
strptime(v) ==
  [year |-> ParseInt(SubSeq(v, 1, 4)), month |-> ParseInt(SubSeq(v, 6, 7)),
   day |-> ParseInt(SubSeq(v, 9, 10)), hour |-> 0, minute |-> 0]

\* datetime.combine(v, datetime.min.time())
combine(v) ==
  [year |-> v.year, month |-> v.month, day |-> v.day, hour |-> 0, minute |-> 0]

\* v.strftime("%Y-%m-%d")
strftime(v) ==
  ZeroPad(v.year, 4) \o "-" \o ZeroPad(v.month, 2) \o "-" \o ZeroPad(v.day, 2)

\* the local v of _handle_dates after its last statement (line 46)
_handle_dates_v(v) ==
  LET v1 == IF v.type = "str" THEN strptime(v.chars)
            ELSE IF v.type \in {"date", "datetime"} THEN combine(v)
            ELSE v
  IN strftime(v1)

\* _handle_dates has no return statement: the call evaluates to None
_handle_dates(v) ==
  LET formatted == _handle_dates_v(v) IN None

----------------------------------------------------------------------------
(* accountability.py: construction *)

\* datetime | None, as a sequence of at most one element
NoTimestamp == <<>>
Timestamp(clk) == <<clk>>

\* the names a constructor error message quotes
ValueError(param, envvar) == [type |-> "ValueError", quotes |-> {param, envvar}]
NoError == [type |-> "none"]

NoObject == [class |-> "none"]

\* os.getenv(key, default) reading default only, never the environment
getenv_ignores_environ(env, key, default) == default

\* os.getenv(key, default)
getenv(env, key, default) == IF key \in DOMAIN env THEN env[key] ELSE default

\* base64.b64encode(s.encode("utf-8")).decode("utf-8"), left uninterpreted
b64encode(s) == "b64<" \o s \o ">"

\* the (api, oauth) domains __init__ selects; an ambiente outside the enum
\* leaves both attributes unassigned
Domains(ambiente) ==
  CASE ambiente = "DESENVOLVIMENTO" -> <<_dese_api_domain, _dese_oauth_domain>>
    [] ambiente = "HOMOLOGACAO" -> <<_homo_api_domain, _homo_oauth_domain>>
    [] ambiente = "HOMOLOGACAO_ALTERNATIVO" -> <<_homo_alt_api_domain, _homo_alt_oauth_domain>>
    [] ambiente = "PRODUCAO" -> <<_prod_api_domain, _prod_oauth_domain>>
    [] OTHER -> <<Unset, Unset>>

\* cls(ambiente, app_key, client_id, client_secret) under the environment env:
\* the exception raised and the object built
__init__(cls, ambiente, app_key, client_id, client_secret, env) ==
  LET app_key_ == getenv(env, "BB_API_APP_KEY", app_key)
      client_id_ == getenv(env, "BB_API_CLIENT_ID", client_id)
      client_secret_ == getenv(env, "BB_API_CLIENT_SECRET", client_secret)
  IN IF app_key_ = None THEN
       [raised |-> ValueError("app_key", "BB_API_APP_KEY"), object |-> NoObject]
     ELSE IF client_id_ = None THEN
       [raised |-> ValueError("client_id", "BB_API_CLIENT_ID"), object |-> NoObject]
     ELSE IF client_secret_ = None THEN
       [raised |-> ValueError("client_secret", "BB_API_CLIENT_SECRET"), object |-> NoObject]
     ELSE
       [raised |-> NoError,
        object |-> [class |-> cls,
                  _ambiente |-> ambiente,
                  _api_domain |-> Domains(ambiente)[1],
                  _oauth_domain |-> Domains(ambiente)[2],
                  _app_key |-> app_key_,
                  _client_id |-> client_id_,
                  _client_secret |-> client_secret_,
                  _base64_credentials |-> b64encode(client_id_ \o ":" \o client_secret_),
                  _access_token |-> Unset,
                  _last_access_token_request_timestamp |-> NoTimestamp]]

Classes == {"AccountabilityV3RepasseAPI", "AccountabilityV3ControleAPI"}

CredentialNames == {"app_key", "client_id", "client_secret"}
EnvName(p) ==
  CASE p = "app_key" -> "BB_API_APP_KEY"
    [] p = "client_id" -> "BB_API_CLIENT_ID"
    [] p = "client_secret" -> "BB_API_CLIENT_SECRET"

\* the environments: each BB_API_* variable set, to a value of its own, or not
Environments ==
  { [k \in {EnvName(p) : p \in S} |-> "env:" \o k] : S \in SUBSET CredentialNames }

\* the explicit arguments: each given, or left at its default None
Arguments == [CredentialNames -> {None, "arg"}]
ArgValue(args, p) == IF args[p] = None THEN None ELSE "arg:" \o p

----------------------------------------------------------------------------
(* Operation inputs *)

\* the date arguments tried: a YYYY-MM-DD str, a date, a datetime
DateLikes ==
  {[type |-> "str", chars |-> <<"2", "0", "2", "4", "-", "0", "1", "-", "0", "1">>],
   [type |-> "date", year |-> 2024, month |-> 1, day |-> 31],
   [type |-> "datetime", year |-> 2023, month |-> 12, day |-> 5, hour |-> 13, minute |-> 45]}

CNPJs == {<<"1", "2", ".", "3", "4", "5", "/", "0", "0", "0", "1", "-", "7", "8">>,
          <<"1", "2", "3", ".", "4", "5", "6", "-", "7", "8">>}
CEPs == {<<"C", "E", "P", " ", "0", "1", "3", "1", "0", "-", "1", "0", "0">>}

----------------------------------------------------------------------------
(* JSON values, as res.json() returns them.  Every value is a record, so  *)
(* that values of different kinds can be compared:                        *)
(*   [scalar |-> s]   a string, number or boolean, in its str() form      *)
(*   [list |-> xs]    a list                                              *)
(*   [dict |-> kvs]   a dict: its items, in insertion order               *)
(*   [nan |-> TRUE]   NaN, the missing value of pandas                    *)

Scalar(s) == [scalar |-> s]
List(xs) == [list |-> xs]
Dict(kvs) == [dict |-> SubSeq(kvs, 1, Len(kvs))]
NaN == [nan |-> TRUE]

IsList(x) == "list" \in DOMAIN x
IsDict(x) == "dict" \in DOMAIN x

\* an exception in flight
KeyError(k) == [raised |-> "KeyError", key |-> k]
TypeError == [raised |-> "TypeError"]
AttributeError == [raised |-> "AttributeError"]
PandasValueError(message) == [raised |-> "ValueError", message |-> message]
IsRaised(x) == "raised" \in DOMAIN x

\* list(d): the keys of a dict, in insertion order
Keys(d) == [i \in 1..Len(d.dict) |-> d.dict[i].k]
\* k in d
HasKey(d, k) == \E i \in 1..Len(d.dict) : d.dict[i].k = k
\* d.get(k, NaN)
GetItem(d, k) ==
  IF HasKey(d, k) THEN d.dict[CHOOSE i \in 1..Len(d.dict) : d.dict[i].k = k].v
  ELSE NaN

\* x.get(k, NaN) in the place of x[k]
Subscript_missing_is_nan(x, k) ==
  IF IsRaised(x) THEN x
  ELSE IF ~IsDict(x) THEN TypeError
  ELSE GetItem(x, k)

\* x[k], k a str
Subscript(x, k) ==
  IF IsRaised(x) THEN x
  ELSE IF ~IsDict(x) THEN TypeError
  ELSE IF HasKey(x, k) THEN GetItem(x, k)
  ELSE KeyError(k)

\* d[k] = v
SetItem(d, k, v) ==
  IF HasKey(d, k)
    THEN Dict([i \in 1..Len(d.dict) |->
                 IF d.dict[i].k = k THEN [k |-> k, v |-> v] ELSE d.dict[i]])
    ELSE Dict(Append(d.dict, [k |-> k, v |-> v]))

\* d after d.pop(k), k a key of d
Pop(d, k) == Dict(SelectSeq(d.dict, LAMBDA kv : kv.k # k))

\* the index of name in the sequence names, 0 when it is not there
IndexOf(names, name) ==
  IF \E i \in 1..Len(names) : names[i] = name
    THEN CHOOSE i \in 1..Len(names) : names[i] = name
    ELSE 0

RECURSIVE Merge(_, _)
\* names, then the members of more that are not yet there, in their order
Merge(names, more) ==
  IF more = <<>> THEN names
  ELSE Merge(IF IndexOf(names, Head(more)) = 0 THEN Append(names, Head(more))
             ELSE names,
             Tail(more))

RECURSIVE AllKeys(_)
\* the keys of a list of dicts, in order of first appearance
AllKeys(ds) ==
  IF ds = <<>> THEN <<>>
  ELSE Merge(AllKeys(SubSeq(ds, 1, Len(ds) - 1)), Keys(ds[Len(ds)]))

RECURSIVE Flatten(_)
\* the concatenation of a sequence of sequences
Flatten(ss) == IF ss = <<>> THEN <<>> ELSE Head(ss) \o Flatten(Tail(ss))

----------------------------------------------------------------------------
(* pandas.  A DataFrame is its column labels and its rows, each row the   *)
(* cells under the columns in their order; the row labels are 0..n-1      *)
(* wherever the code reads them.                                          *)

\* the sequence s itself, computed here and now: TLC would otherwise carry a
\* function constructor around unevaluated, one inside the other
Strict(s) == SubSeq(s, 1, Len(s))

Frame(columns, rows) ==
  [columns |-> Strict(columns),
   rows |-> Strict([r \in 1..Len(rows) |-> Strict(rows[r])])]
EmptyFrame == Frame(<<>>, <<>>)

\* pd.DataFrame(xs) leaving out the first element of xs
DataFrameOfList_skips_first(xs) ==
  IF Len(xs) <= 1 THEN EmptyFrame
  ELSE Frame(AllKeys(Tail(xs)),
             [i \in 1..(Len(xs) - 1) |->
                [j \in 1..Len(AllKeys(Tail(xs))) |->
                   GetItem(xs[i + 1], AllKeys(Tail(xs))[j])]])

\* pd.DataFrame(xs), xs a list: of dicts, a row per element and a column per
\* key, NaN where an element lacks the key; of other values, a row per
\* element under the one column 0
DataFrameOfList(xs) ==
  IF xs = <<>> THEN EmptyFrame
  ELSE IF \A i \in 1..Len(xs) : IsDict(xs[i])
    THEN LET columns == AllKeys(xs)
         IN Frame(columns,
                  [i \in 1..Len(xs) |->
                     [j \in 1..Len(columns) |-> GetItem(xs[i], columns[j])]])
    ELSE Frame(<<"0">>, [i \in 1..Len(xs) |-> <<xs[i]>>])

\* pd.DataFrame(d), d a dict: a column per key.  The lists give the rows and
\* must agree in length; nested dicts give a row per nested key; scalars are
\* repeated on every row; with nothing but scalars there is no row index
DataFrameOfDict(d) ==
  LET n == Len(d.dict)
      columns == Keys(d)
      lists == {i \in 1..n : IsList(d.dict[i].v)}
      dicts == {i \in 1..n : IsDict(d.dict[i].v)}
  IN
  IF n = 0 THEN EmptyFrame
  ELSE IF lists = {} /\ dicts = {}
    THEN PandasValueError("If using all scalar values, you must pass an index")
  ELSE IF lists # {} /\ dicts # {}
    THEN PandasValueError("Mixing dicts with non-Series may lead to ambiguous ordering.")
  ELSE IF lists # {}
    THEN LET len(i) == Len(d.dict[i].v.list)
             m == len(CHOOSE i \in lists : TRUE)
         IN IF \E i \in lists : len(i) # m
              THEN PandasValueError("All arrays must be of the same length")
              ELSE Frame(columns,
                         [r \in 1..m |->
                            [j \in 1..n |-> IF j \in lists THEN d.dict[j].v.list[r]
                                            ELSE d.dict[j].v]])
  ELSE LET index == AllKeys([i \in 1..n |->
                               IF i \in dicts THEN d.dict[i].v ELSE Dict(<<>>)])
       IN Frame(columns,
                [r \in 1..Len(index) |->
                   [j \in 1..n |-> IF j \in dicts THEN GetItem(d.dict[j].v, index[r])
                                   ELSE d.dict[j].v]])

\* pd.DataFrame(x); an x that is an exception is the argument expression
\* raising before the call
DataFrame(x) ==
  IF IsRaised(x) THEN x
  ELSE IF IsList(x) THEN DataFrameOfList(x.list)
  ELSE IF IsDict(x) THEN DataFrameOfDict(x)
  ELSE PandasValueError("DataFrame constructor not properly called!")

\* df with the cells of column k given row by row, always as a new last
\* column
SetColumn_appends(df, k, cells) ==
  Frame(Append(df.columns, k),
        [r \in 1..Len(df.rows) |-> Append(df.rows[r], cells[r])])

\* df with the cells of column k given row by row: over the column that is
\* there, or as a new last column
SetColumn(df, k, cells) ==
  LET at == IndexOf(df.columns, k)
  IN IF at = 0
       THEN Frame(Append(df.columns, k),
                  [r \in 1..Len(df.rows) |-> Append(df.rows[r], cells[r])])
       ELSE Frame(df.columns,
                  [r \in 1..Len(df.rows) |->
                     [j \in 1..Len(df.columns) |-> IF j = at THEN cells[r]
                                                   ELSE df.rows[r][j]]])

\* df[k] = v with a scalar v written on the first row only
Insert_on_first_row(df, k, v) ==
  IF IsRaised(df) THEN df
  ELSE IF IsRaised(v) THEN v
  ELSE SetColumn(df, k, [r \in 1..Len(df.rows) |-> IF r = 1 THEN v ELSE NaN])

\* df[k] = v.  A scalar goes on every row.  A list gives the column row by
\* row and must be as long as the frame, except that a frame without rows
\* takes its rows from the list.  A dict is aligned on the row labels, which
\* its keys never are: the column is NaN
Insert(df, k, v) ==
  IF IsRaised(df) THEN df
  ELSE IF IsRaised(v) THEN v
  ELSE IF IsList(v)
    THEN IF Len(df.rows) = 0 /\ Len(v.list) > 0
           THEN SetColumn(Frame(df.columns,
                                [r \in 1..Len(v.list) |->
                                   [j \in 1..Len(df.columns) |-> NaN]]),
                          k, v.list)
         ELSE IF Len(v.list) # Len(df.rows)
           THEN PandasValueError("Length of values does not match length of index")
         ELSE SetColumn(df, k, v.list)
  ELSE IF IsDict(v) THEN SetColumn(df, k, [r \in 1..Len(df.rows) |-> NaN])
  ELSE SetColumn(df, k, [r \in 1..Len(df.rows) |-> v])

\* the values one cell explodes into, a list giving its first element only
Exploded_first_element(cell) ==
  IF IsList(cell) THEN (IF cell.list = <<>> THEN <<NaN>> ELSE <<cell.list[1]>>)
  ELSE <<cell>>

\* the values one cell explodes into, an empty list giving none
Exploded_drops_empty(cell) ==
  IF IsList(cell) THEN cell.list ELSE <<cell>>

\* the values one cell explodes into: the elements of a list, the keys of a
\* dict, NaN for an empty one, the cell itself otherwise
Exploded(cell) ==
  IF IsList(cell) THEN (IF cell.list = <<>> THEN <<NaN>> ELSE cell.list)
  ELSE IF IsDict(cell)
    THEN (IF cell.dict = <<>> THEN <<NaN>>
          ELSE [i \in 1..Len(cell.dict) |-> Scalar(cell.dict[i].k)])
  ELSE <<cell>>

\* df.explode(column, ignore_index=True)
explode(df, column) ==
  IF IsRaised(df) THEN df
  ELSE LET at == IndexOf(df.columns, column)
           RowsOf(row) ==
             LET cells == Exploded(row[at])
             IN [i \in 1..Len(cells) |->
                   [j \in 1..Len(row) |-> IF j = at THEN cells[i] ELSE row[j]]]
       IN IF at = 0 THEN KeyError(column)
          ELSE Frame(df.columns,
                     Flatten([r \in 1..Len(df.rows) |-> RowsOf(df.rows[r])]))

\* df.rename(rename_dict, axis=1) keeping the renamed columns only
rename_drops_unmapped(df, rename_dict) ==
  IF IsRaised(df) THEN df
  ELSE [columns |-> [j \in 1..Cardinality({i \in 1..Len(df.columns) :
                                               df.columns[i] \in DOMAIN rename_dict}) |->
                       "renamed"],
        rows |-> df.rows]

\* df.rename(rename_dict, axis=1)
rename(df, rename_dict) ==
  IF IsRaised(df) THEN df
  ELSE
  Frame([j \in 1..Len(df.columns) |->
           IF df.columns[j] \in DOMAIN rename_dict THEN rename_dict[df.columns[j]]
           ELSE df.columns[j]],
        df.rows)

----------------------------------------------------------------------------
(* common.py: _handle_results *)

RECURSIVE InsertRange(_, _, _, _, _)
\* for insertable in insertables[lo..hi]: df[insertable] = data[insertable],
\* the range walked as its first half and then, on the frame that leaves, its
\* second half
InsertRange(df, data, insertables, lo, hi) ==
  IF lo > hi THEN df
  ELSE IF lo = hi
    THEN Insert(df, insertables[lo], Subscript(data, insertables[lo]))
  ELSE LET mid == (lo + hi) \div 2
       IN CHOOSE done \in {InsertRange(half, data, insertables, mid + 1, hi) :
                             half \in {InsertRange(df, data, insertables, lo, mid)}} :
            TRUE

\* for insertable in insertables: df[insertable] = data[insertable]
InsertAll(df, data, insertables) ==
  InsertRange(df, data, insertables, 1, Len(insertables))

RECURSIVE ExplodeAll(_, _)
\* for explodeable in explodeables: df = df.explode(explodeable, ignore_index=True)
ExplodeAll(df, explodeables) ==
  IF explodeables = <<>> THEN df
  ELSE ExplodeAll(explode(df, Head(explodeables)), Tail(explodeables))

\* _handle_results.  An insertables, explodeables or rename_dict left at None
\* is given as the empty one, which the code treats alike.  Each statement
\* works on what the one before it left, and none runs after one that raised
_handle_results(data, main_list, insertables, explodeables, rename_dict) ==
  rename(
    ExplodeAll(
      InsertAll(
        DataFrame(IF main_list # None THEN Subscript(data, main_list) ELSE data),
        data, insertables),
      explodeables),
    rename_dict)

\* json[outer][old] = json[outer].pop(old): the value back under its old key
MoveKey_under_old_key(json, outer, old, new) ==
  LET d == Subscript(json, outer)
  IN IF IsRaised(d) THEN d
     ELSE IF IsList(d) THEN TypeError
     ELSE IF ~IsDict(d) THEN AttributeError
     ELSE IF ~HasKey(d, old) THEN KeyError(old)
     ELSE SetItem(json, outer, SetItem(Pop(d, old), old, GetItem(d, old)))

\* json[outer][new] = json[outer].pop(old): the right-hand side first
MoveKey(json, outer, old, new) ==
  LET d == Subscript(json, outer)
  IN IF IsRaised(d) THEN d
     ELSE IF IsList(d) THEN TypeError
     ELSE IF ~IsDict(d) THEN AttributeError
     ELSE IF ~HasKey(d, old) THEN KeyError(old)
     ELSE SetItem(json, outer, SetItem(Pop(d, old), new, GetItem(d, old)))

\* return df_n in the place of (df_1, ..., df_n)
Tuple_last_only(dfs) ==
  IF \E i \in 1..Len(dfs) : IsRaised(dfs[i])
    THEN dfs[CHOOSE i \in 1..Len(dfs) :
               IsRaised(dfs[i]) /\ \A j \in 1..(i - 1) : ~IsRaised(dfs[j])]
    ELSE dfs[Len(dfs)]

\* return (df_1, ..., df_n): the statement is reached when no df_i raised
Tuple(dfs) ==
  IF \E i \in 1..Len(dfs) : IsRaised(dfs[i])
    THEN dfs[CHOOSE i \in 1..Len(dfs) :
               IsRaised(dfs[i]) /\ \A j \in 1..(i - 1) : ~IsRaised(dfs[j])]
    ELSE [tuple |-> dfs]

----------------------------------------------------------------------------
(* Response bodies *)

\* a JSON object with a scalar under each key
Object(keys, tag) ==
  Dict([j \in 1..Len(keys) |-> [k |-> keys[j], v |-> Scalar(keys[j] \o tag)]])

\* a JSON object with a list of one scalar under each key
ListObject(keys, tag) ==
  Dict([j \in 1..Len(keys) |-> [k |-> keys[j], v |-> List(<<Scalar(keys[j] \o tag)>>)]])

\* a main list of two elements with the given scalar fields; under each key of
\* lists the first element has a list of two and the second an empty list
Elements(fields, lists) ==
  LET first == Object(fields, "/1").dict \o
               [j \in 1..Len(lists) |->
                  [k |-> lists[j],
                   v |-> List(<<Scalar(lists[j] \o "/1/1"), Scalar(lists[j] \o "/1/2")>>)]]
      second == Object(fields, "/2").dict \o
                [j \in 1..Len(lists) |-> [k |-> lists[j], v |-> List(<<>>)]]
  IN List(<<Dict(first), Dict(second)>>)

----------------------------------------------------------------------------
(* accountability.py: the operations *)

\* post_categoria_despesa_lancamento_credito without its Content-Type header
Repasse_post_categoria_despesa_lancamento_credito_bearer_only(self, access_token, a) ==
  [method |-> "POST",
   url |-> self._api_domain \o "/accountability/v3/orgaos-repasse/lancamentos-credito/" \o a.ordem_bancaria \o "-" \o a.item \o "/categorias-despesa",
   headers |-> _get_headers(access_token),
   params |-> ("gw-dev-app-key" :> self._app_key),
   data |-> ("codigoListagemCliente" :> a.codigo_listagem_cliente) @@ ("codigoCategoriaDespesa" :> a.codigo_categoria_despesa) @@ ("codigoUnidadeGestora" :> a.codigo_unidade_gestora) @@ ("codigoContrato" :> a.codigo_contrato) @@ ("contaCorrente" :> a.conta_corrente) @@ ("agencia" :> a.agencia),
   accepted |-> {200, 201},
   message |-> "Não foi possível listar as categorias do programa de governo."]

\* _AccountabilityV3BaseAPI.get_agencias_proximas, up to its status check:
\* the request it sends, the statuses it accepts, the message it raises otherwise
Base_get_agencias_proximas(self, access_token, a) ==
  LET cnpj_ == _handle_numeric_string_with_symbols(a.cnpj)
      cep_ == _handle_numeric_string_with_symbols(a.cep)
  IN
  [method |-> "GET",
   url |-> self._api_domain \o "/accountability/v3/agencias-proximas",
   headers |-> _get_headers(access_token),
   params |-> ("cep" :> cep_) @@ ("cnpj" :> cnpj_) @@ ("gw-dev-app-key" :> self._app_key),
   data |-> NotPassed,
   accepted |-> {200},
   message |-> "Não foi possível listar as categorias do programa de governo."]

\* AccountabilityV3RepasseAPI.get_extrato_programa_governo, up to its status check:
\* the request it sends, the statuses it accepts, the message it raises otherwise
Repasse_get_extrato_programa_governo(self, access_token, a) ==
  LET start_date_ == _handle_dates(a.start_date)
      end_date_ == _handle_dates(a.end_date)
  IN
  [method |-> "GET",
   url |-> self._api_domain \o "/accountability/v3/statements/" \o a.branch_code \o "-" \o a.account_number,
   headers |-> _get_headers(access_token),
   params |-> ("endDate" :> end_date_) @@ ("startDate" :> start_date_) @@ ("gw-dev-app-key" :> self._app_key),
   data |-> NotPassed,
   accepted |-> {200},
   message |-> "Não foi possível reaver o extrato do órgão repassador."]

\* AccountabilityV3RepasseAPI.get_documento_despesas_programa_governo, up to its status check:
\* the request it sends, the statuses it accepts, the message it raises otherwise
Repasse_get_documento_despesas_programa_governo(self, access_token, a) ==
  LET booking_date_ == _handle_dates(a.booking_date)
  IN
  [method |-> "GET",
   url |-> self._api_domain \o "/accountability/v3/expenses/" \o a.branch_code \o "-" \o a.account_number \o "/transactions/" \o a.transaction_id \o "/documents/" \o a.document_id,
   headers |-> _get_headers(access_token),
   params |-> ("bookingDate" :> booking_date_) @@ ("gw-dev-app-key" :> self._app_key),
   data |-> NotPassed,
   accepted |-> {200},
   message |-> "Não foi possível reaver o extrato do órgão repassador."]

\* AccountabilityV3RepasseAPI.get_documento_despesas_prestacao_contas, up to its status check:
\* the request it sends, the statuses it accepts, the message it raises otherwise
Repasse_get_documento_despesas_prestacao_contas(self, access_token, a) ==
  LET booking_date_ == _handle_dates(a.booking_date)
  IN
  [method |-> "GET",
   url |-> self._api_domain \o "/accountability/v3/expenses/" \o a.branch_code \o "-" \o a.account_number \o "/transactions/" \o a.transaction_id \o "/subTransactions/" \o a.subtransaction_id \o "/documents/" \o a.document_id,
   headers |-> _get_headers(access_token),
   params |-> ("bookingDate" :> booking_date_) @@ ("gw-dev-app-key" :> self._app_key),
   data |-> NotPassed,
   accepted |-> {200},
   message |-> "Não foi possível reaver o extrato do órgão repassador."]

\* AccountabilityV3RepasseAPI.get_extrato_subtransacoes_programa_governo, up to its status check:
\* the request it sends, the statuses it accepts, the message it raises otherwise
Repasse_get_extrato_subtransacoes_programa_governo(self, access_token, a) ==
  LET params0 == ("gw-dev-app-key" :> self._app_key)
      params == IF a.id_subtransaction # None THEN ("idSubtransaction" :> a.id_subtransaction) @@ params0 ELSE params0
  IN
  [method |-> "GET",
   url |-> self._api_domain \o "/accountability/v3/statements/" \o a.branch_code \o "-" \o a.account_number \o "/debits/" \o a.id \o "/subtransactions",
   headers |-> _get_headers(access_token),
   params |-> params,
   data |-> NotPassed,
   accepted |-> {200},
   message |-> "Não foi possível reaver o extrato do órgão repassador."]

\* AccountabilityV3RepasseAPI.get_extrato_fundos_investimento, up to its status check:
\* the request it sends, the statuses it accepts, the message it raises otherwise
Repasse_get_extrato_fundos_investimento(self, access_token, a) ==
  [method |-> "GET",
   url |-> self._api_domain \o "/accountability/v3/extratos/" \o a.agencia \o "-" \o a.conta_corrente \o "/fundos-investimentos/" \o a.fundo_investimento_id,
   headers |-> _get_headers(access_token),
   params |-> ("gw-dev-app-key" :> self._app_key) @@ ("ano" :> a.ano) @@ ("mes" :> a.mes),
   data |-> NotPassed,
   accepted |-> {200},
   message |-> "Não foi possível listar as categorias do programa de governo."]

\* AccountabilityV3RepasseAPI.get_extrato_poupanca, up to its status check:
\* the request it sends, the statuses it accepts, the message it raises otherwise
Repasse_get_extrato_poupanca(self, access_token, a) ==
  [method |-> "GET",
   url |-> self._api_domain \o "/accountability/v3/extratos/" \o a.agencia \o "-" \o a.conta_corrente \o "/poupanca/" \o a.variacao_poupanca,
   headers |-> _get_headers(access_token),
   params |-> ("gw-dev-app-key" :> self._app_key) @@ ("ano" :> a.ano) @@ ("mes" :> a.mes),
   data |-> NotPassed,
   accepted |-> {200},
   message |-> "Não foi possível listar as categorias do programa de governo."]

\* AccountabilityV3RepasseAPI.get_lancamentos_atualizados, up to its status check:
\* the request it sends, the statuses it accepts, the message it raises otherwise
Repasse_get_lancamentos_atualizados(self, access_token, a) ==
  LET data_inicio_ == _handle_dates(a.data_inicio)
      data_fim_ == _handle_dates(a.data_fim)
  IN
  [method |-> "GET",
   url |-> self._api_domain \o "/accountability/v3/programas-governo/" \o a.numero_programa_governo \o "/orgaos-repasse/lancamentos-atualizados",
   headers |-> _get_headers(access_token),
   params |-> ("gw-dev-app-key" :> self._app_key) @@ ("pagina" :> a.pagina) @@ ("dataFim" :> data_fim_) @@ ("dataInicio" :> data_inicio_),
   data |-> NotPassed,
   accepted |-> {200},
   message |-> "Não foi possível listar as categorias do programa de governo."]

\* AccountabilityV3RepasseAPI.get_sublancamentos_atualizados, up to its status check:
\* the request it sends, the statuses it accepts, the message it raises otherwise
Repasse_get_sublancamentos_atualizados(self, access_token, a) ==
  LET data_inicio_ == _handle_dates(a.data_inicio)
      data_fim_ == _handle_dates(a.data_fim)
  IN
  [method |-> "GET",
   url |-> self._api_domain \o "/accountability/v3/programas-governo/" \o a.numero_programa_governo \o "/orgaos-repasse/sublancamentos-atualizados",
   headers |-> _get_headers(access_token),
   params |-> ("gw-dev-app-key" :> self._app_key) @@ ("pagina" :> a.pagina) @@ ("dataFim" :> data_fim_) @@ ("dataInicio" :> data_inicio_),
   data |-> NotPassed,
   accepted |-> {200},
   message |-> "Não foi possível listar as categorias do programa de governo."]

\* AccountabilityV3RepasseAPI.get_categorias_programa_governo, up to its status check:
\* the request it sends, the statuses it accepts, the message it raises otherwise
Repasse_get_categorias_programa_governo(self, access_token, a) ==
  [method |-> "GET",
   url |-> self._api_domain \o "/accountability/v3/programas-governo/" \o a.numero_programa_governo \o "/categorias",
   headers |-> _get_headers(access_token),
   params |-> ("gw-dev-app-key" :> self._app_key),
   data |-> NotPassed,
   accepted |-> {200},
   message |-> "Não foi possível listar as categorias do programa de governo."]

\* AccountabilityV3RepasseAPI.get_saldo_aplicacoes_financeiras, up to its status check:
\* the request it sends, the statuses it accepts, the message it raises otherwise
Repasse_get_saldo_aplicacoes_financeiras(self, access_token, a) ==
  [method |-> "GET",
   url |-> self._api_domain \o "/accountability/v3/saldos/" \o a.agencia \o "-" \o a.conta_corrente \o "/aplicacoes-financeiras",
   headers |-> _get_headers(access_token),
   params |-> NotPassed,
   data |-> NotPassed,
   accepted |-> {200},
   message |-> "Não foi possível listar as categorias do programa de governo."]

\* AccountabilityV3RepasseAPI.get_saldo_conta_corrente, up to its status check:
\* the request it sends, the statuses it accepts, the message it raises otherwise
Repasse_get_saldo_conta_corrente(self, access_token, a) ==
  [method |-> "GET",
   url |-> self._api_domain \o "/accountability/v3/saldos/" \o a.agencia \o "-" \o a.conta_corrente \o "/conta-corrente",
   headers |-> _get_headers(access_token),
   params |-> ("gw-dev-app-key" :> self._app_key),
   data |-> NotPassed,
   accepted |-> {200},
   message |-> "Não foi possível listar as categorias do programa de governo."]

\* AccountabilityV3RepasseAPI.post_categoria_despesa_lancamento_credito, up to its status check:
\* the request it sends, the statuses it accepts, the message it raises otherwise
Repasse_post_categoria_despesa_lancamento_credito(self, access_token, a) ==
  [method |-> "POST",
   url |-> self._api_domain \o "/accountability/v3/orgaos-repasse/lancamentos-credito/" \o a.ordem_bancaria \o "-" \o a.item \o "/categorias-despesa",
   headers |-> _get_headers(access_token) @@ ("Content-Type" :> "application/json"),
   params |-> ("gw-dev-app-key" :> self._app_key),
   data |-> ("codigoListagemCliente" :> a.codigo_listagem_cliente) @@ ("codigoCategoriaDespesa" :> a.codigo_categoria_despesa) @@ ("codigoUnidadeGestora" :> a.codigo_unidade_gestora) @@ ("codigoContrato" :> a.codigo_contrato) @@ ("contaCorrente" :> a.conta_corrente) @@ ("agencia" :> a.agencia),
   accepted |-> {200, 201},
   message |-> "Não foi possível listar as categorias do programa de governo."]

\* AccountabilityV3RepasseAPI.post_identificacao_lancamento_credito, up to its status check:
\* the request it sends, the statuses it accepts, the message it raises otherwise
Repasse_post_identificacao_lancamento_credito(self, access_token, a) ==
  LET data_lancamento_ == _handle_dates(a.data_lancamento)
  IN
  [method |-> "POST",
   url |-> self._api_domain \o "/accountability/v3/orgaos-repasse/" \o a.agencia \o "-" \o a.conta_corrente \o "/lancamentos-credito",
   headers |-> _get_headers(access_token) @@ ("Content-Type" :> "application/json"),
   params |-> ("gw-dev-app-key" :> self._app_key),
   data |-> ("codigoIdentificacao" :> a.codigo_identificacao) @@ ("tipoIdentificacao" :> a.tipo_identificacao) @@ ("valorFracionado" :> a.valor_fracionado) @@ ("numeroCompanhia" :> a.numero_companhia) @@ ("dataLancamento" :> data_lancamento_) @@ ("numeroSequencialOrdemBancaria" :> a.numero_sequencial_ordem_bancaria) @@ ("numeroBancario" :> a.numero_bancario),
   accepted |-> {200, 201},
   message |-> "Não foi possível listar as categorias do programa de governo."]

\* AccountabilityV3RepasseAPI.delete_identificacao_lancamento_credito, up to its status check:
\* the request it sends, the statuses it accepts, the message it raises otherwise
Repasse_delete_identificacao_lancamento_credito(self, access_token, a) ==
  [method |-> "DELETE",
   url |-> self._api_domain \o "/accountability/v3/orgaos-repasse/" \o a.agencia \o "-" \o a.conta_corrente \o "/lancamentos-credito/" \o a.sequencial_lancamento \o "-" \o a.sequencial_identificacao,
   headers |-> _get_headers(access_token),
   params |-> ("gw-dev-app-key" :> self._app_key),
   data |-> NotPassed,
   accepted |-> {200, 201},
   message |-> "Não foi possível listar as categorias do programa de governo."]

\* AccountabilityV3RepasseAPI.get_identificacao_lancamento_debito, up to its status check:
\* the request it sends, the statuses it accepts, the message it raises otherwise
Repasse_get_identificacao_lancamento_debito(self, access_token, a) ==
  [method |-> "GET",
   url |-> self._api_domain \o "/accountability/v3/orgaos-repasse/" \o a.agencia \o "-" \o a.conta_corrente \o "/lancamentos-debito",
   headers |-> _get_headers(access_token),
   params |-> ("numeroPagina" :> a.numero_pagina) @@ ("gw-dev-app-key" :> self._app_key),
   data |-> NotPassed,
   accepted |-> {200},
   message |-> "Não foi possível listar as categorias do programa de governo."]

\* AccountabilityV3ControleAPI.get_extrato_programa_governo, up to its status check:
\* the request it sends, the statuses it accepts, the message it raises otherwise
Controle_get_extrato_programa_governo(self, access_token, a) ==
  LET start_date_ == _handle_dates(a.start_date)
      end_date_ == _handle_dates(a.end_date)
  IN
  [method |-> "GET",
   url |-> self._api_domain \o "/accountability/v3/statements/" \o a.branch_code \o "-" \o a.account_number \o "/control-agencies",
   headers |-> _get_headers(access_token),
   params |-> ("endDate" :> end_date_) @@ ("startDate" :> start_date_) @@ ("gw-dev-app-key" :> self._app_key),
   data |-> NotPassed,
   accepted |-> {200},
   message |-> "Não foi possível reaver o extrato do órgão repassador."]

\* AccountabilityV3ControleAPI.get_documento_despesas_programa_governo, up to its status check:
\* the request it sends, the statuses it accepts, the message it raises otherwise
Controle_get_documento_despesas_programa_governo(self, access_token, a) ==
  LET booking_date_ == _handle_dates(a.booking_date)
  IN
  [method |-> "GET",
   url |-> self._api_domain \o "/accountability/v3/expenses/" \o a.branch_code \o "-" \o a.account_number \o "/transactions/" \o a.transaction_id \o "/documents/" \o a.document_id,
   headers |-> _get_headers(access_token),
   params |-> ("bookingDate" :> booking_date_) @@ ("gw-dev-app-key" :> self._app_key),
   data |-> NotPassed,
   accepted |-> {200},
   message |-> "Não foi possível reaver o extrato do órgão repassador."]

\* AccountabilityV3ControleAPI.get_documento_despesas_prestacao_contas, up to its status check:
\* the request it sends, the statuses it accepts, the message it raises otherwise
Controle_get_documento_despesas_prestacao_contas(self, access_token, a) ==
  LET booking_date_ == _handle_dates(a.booking_date)
  IN
  [method |-> "GET",
   url |-> self._api_domain \o "/accountability/v3/expenses/" \o a.branch_code \o "-" \o a.account_number \o "/transactions/" \o a.transaction_id \o "/subTransactions/" \o a.subtransaction_id \o "/documents/" \o a.document_id,
   headers |-> _get_headers(access_token),
   params |-> ("bookingDate" :> booking_date_) @@ ("gw-dev-app-key" :> self._app_key),
   data |-> NotPassed,
   accepted |-> {200},
   message |-> "Não foi possível reaver o extrato do órgão repassador."]

\* AccountabilityV3ControleAPI.get_extrato_subtransacoes_programa_governo, up to its status check:
\* the request it sends, the statuses it accepts, the message it raises otherwise
Controle_get_extrato_subtransacoes_programa_governo(self, access_token, a) ==
  [method |-> "GET",
   url |-> self._api_domain \o "/accountability/v3/statements/" \o a.branch_code \o "-" \o a.account_number \o "/debits/" \o a.id \o "/control-agencies/subtransactions",
   headers |-> _get_headers(access_token),
   params |-> ("gw-dev-app-key" :> self._app_key),
   data |-> NotPassed,
   accepted |-> {200},
   message |-> "Não foi possível listar as categorias do programa de governo."]

\* AccountabilityV3ControleAPI.get_extrato_fundos_investimento, up to its status check:
\* the request it sends, the statuses it accepts, the message it raises otherwise
Controle_get_extrato_fundos_investimento(self, access_token, a) ==
  [method |-> "GET",
   url |-> self._api_domain \o "/accountability/v3/extratos/" \o a.agencia \o "-" \o a.conta_corrente \o "/fundos-investimentos/" \o a.fundo_investimento_id \o "/control-agencies",
   headers |-> _get_headers(access_token),
   params |-> ("gw-dev-app-key" :> self._app_key) @@ ("ano" :> a.ano) @@ ("mes" :> a.mes),
   data |-> NotPassed,
   accepted |-> {200},
   message |-> "Não foi possível listar as categorias do programa de governo."]

\* AccountabilityV3ControleAPI.get_extrato_poupanca, up to its status check:
\* the request it sends, the statuses it accepts, the message it raises otherwise
Controle_get_extrato_poupanca(self, access_token, a) ==
  [method |-> "GET",
   url |-> self._api_domain \o "/accountability/v3/extratos/" \o a.agencia \o "-" \o a.conta_corrente \o "/poupanca/" \o a.variacao_poupanca \o "/orgao-controle",
   headers |-> _get_headers(access_token),
   params |-> ("codigoVariacao" :> a.codigo_variacao) @@ ("gw-dev-app-key" :> self._app_key),
   data |-> NotPassed,
   accepted |-> {200},
   message |-> "Não foi possível listar as categorias do programa de governo."]

\* AccountabilityV3ControleAPI.get_contas_correntes, up to its status check:
\* the request it sends, the statuses it accepts, the message it raises otherwise
Controle_get_contas_correntes(self, access_token, a) ==
  [method |-> "GET",
   url |-> self._api_domain \o "/accountability/v3/conta-corrente/orgaos-controle",
   headers |-> _get_headers(access_token),
   params |-> ("numeroRegistro" :> a.numero_registro) @@ ("gw-dev-app-key" :> self._app_key),
   data |-> NotPassed,
   accepted |-> {200},
   message |-> "Não foi possível listar as categorias do programa de governo."]

\* _AccountabilityV3BaseAPI.get_agencias_proximas, from res.json() on:
\* what it returns or raises on the body json of an accepted response
Base_get_agencias_proximas_result(json) ==
  _handle_results(
    json,
    "listaAgencia",
    <<"quantidadeAgencia">>,
    <<>>,
    ("sugerida" :> "Sugerida") @@
    ("siglaUF" :> "Sigla UF") @@
    ("municipio" :> "Munícipio") @@
    ("bairro" :> "Bairro") @@
    ("logradouro" :> "Logradouro") @@
    ("cep" :> "CEP") @@
    ("nome" :> "Nome") @@
    ("digito" :> "Dígito") @@
    ("codigo" :> "Código") @@
    ("quantidadeAgencia" :> "Quantidade Agências"))

\* AccountabilityV3RepasseAPI.get_extrato_programa_governo, from res.json() on:
\* what it returns or raises on the body json of an accepted response
Repasse_get_extrato_programa_governo_result(json) ==
  _handle_results(
    json,
    "transactions",
    <<"governmentProgramCode",
      "governmentProgramName",
      "governmentSubProgramCode",
      "governmentSubProgramName">>,
    <<"expensesDocuments">>,
    ("expensesDocuments" :> "ID Documento Despesa") @@
    ("expensesCategory" :> "Categoria Despesa") @@
    ("expenseSequentialNumber" :> "Número Sequencial Despesa") @@
    ("bankOrderPurposeDescription" :> "Descrição Finalidade Ordem Banco") @@
    ("bankOrderPurposeCode" :> "Código Finalidade Ordem Banco") @@
    ("bankOrderRuleCode" :> "Código Ordem Pagamento Banco") @@
    ("subTransactionQuantity" :> "Quantidade Subtransações") @@
    ("expenseIdentificationStatus" :> "Status Identificação Despesa") @@
    ("expenseCategoryCode" :> "Código Categoria Despesa") @@
    ("attachedExpenseDocumentIndicator" :> "Indicador Anexo Documento Despesa") @@
    ("pendingExpenseConciliation" :> "Conciliação Despesa Pendente") @@
    ("beneficiaryName" :> "Nome Beneficiário") @@
    ("beneficiaryDocumentId" :> "ID Documento Beneficiário") @@
    ("beneficiaryPersonType" :> "Tipo Pessoa Beneficiário") @@
    ("beneficiaryAccountNumber" :> "Número Conta Beneficiário") @@
    ("beneficiaryBranchCode" :> "Código Agência Beneficiário") @@
    ("beneficiaryBankIdentifierCode" :> "Código Identificador Banco Beneficiário") @@
    ("creditDebitIndicator" :> "Indicador Crédito Débito") @@
    ("descriptionBatchNumber" :> "Número Lote Descrição") @@
    ("descriptionName" :> "Nome Descrição") @@
    ("descriptionCode" :> "Código Descrição") @@
    ("accountBalance" :> "Saldo Conta") @@
    ("value" :> "Valor") @@
    ("referenceNumber" :> "Número Referência") @@
    ("valueDate" :> "Data Valor") @@
    ("orderIndex" :> "Índice Ordem") @@
    ("bookingDate" :> "Data Agendamento") @@
    ("id" :> "ID Transação") @@
    ("governmentSubProgramName" :> "Nome SubPrograma Governo") @@
    ("governmentSubProgramCode" :> "Código SubPrograma Governo") @@
    ("governmentProgramName" :> "Nome Programa Governo") @@
    ("governmentProgramCode" :> "Código Programa Governo"))

\* AccountabilityV3RepasseAPI.get_documento_despesas_programa_governo, from res.json() on:
\* what it returns or raises on the body json of an accepted response
Repasse_get_documento_despesas_programa_governo_result(json) ==
  LET df_issuer == _handle_results(
        Subscript(json, "issuer"),
        None,
        <<>>,
        <<>>,
        ("phoneNumber" :> "Telefone") @@
        ("postalCode" :> "CEP") @@
        ("additionalAddressInformation" :> "Endereço") @@
        ("districtName" :> "Bairro") @@
        ("cityName" :> "Cidade") @@
        ("stateAbbreviation" :> "UF") @@
        ("countryName" :> "Nacionalidade") @@
        ("tradeName" :> "Nome Social") @@
        ("legalName" :> "Nome Legal") @@
        ("stateRegistrationNumber" :> "RG") @@
        ("individualTaxPayerRegistry" :> "CPF") @@
        ("corporateTaxPayerRegistry" :> "CNPJ"))
      df_recipient == _handle_results(
        Subscript(json, "recipient"),
        None,
        <<>>,
        <<>>,
        ("typeConsumerCode" :> "Código Tipo Consumidor") @@
        ("presenceTypeCode" :> "Código Tipo Presença") @@
        ("phoneNumber" :> "Telefone") @@
        ("postalCode" :> "CEP") @@
        ("additionalAddressInformation" :> "Endereço") @@
        ("districtName" :> "Bairro") @@
        ("cityName" :> "Cidade") @@
        ("stateAbbreviation" :> "UF") @@
        ("countryName" :> "Nacionalidade") @@
        ("tradeName" :> "Nome Social") @@
        ("legalName" :> "Nome Legal") @@
        ("stateRegistrationNumber" :> "RG") @@
        ("individualTaxPayerRegistry" :> "CPF") @@
        ("corporateTaxPayerRegistry" :> "CNPJ"))
      df_document == _handle_results(
        Subscript(json, "expenseDocument"),
        "items",
        <<"accessKey",
          "receiptTypeCode",
          "typeCode",
          "serialCode",
          "number",
          "issueDate",
          "movementDate",
          "itemDeliveryDate",
          "value",
          "operationTypeName",
          "operation",
          "paymentMethod",
          "digitalSignatureCode",
          "pronafAbilityRegistration",
          "timestamp",
          "userId",
          "discountValue",
          "totalDiscountValue",
          "realeaseInstrumentCode",
          "realeaseInstrumentName",
          "realeaseInstrumentDate",
          "additionalInformation">>,
        <<>>,
        ("itemDiscountValue" :> "Valor Desconto Item") @@
        ("mercosurCommonNameId" :> "ID Nome Comum Mercosul") @@
        ("totalValue" :> "Valor Total Item") @@
        ("unitValue" :> "Valor Unitário Item") @@
        ("metric" :> "Métrica Item") @@
        ("quantity" :> "Quantidade Item") @@
        ("description" :> "Descrição Item") @@
        ("additionalInformation" :> "Informação Adicional") @@
        ("realeaseInstrumentDate" :> "Data Liberação Instrumento") @@
        ("realeaseInstrumentName" :> "Nome Liberação Instrumento") @@
        ("realeaseInstrumentCode" :> "Código Liberação de Instrumento") @@
        ("totalDiscountValue" :> "Valor Total Desconto") @@
        ("discountValue" :> "Valor Desconto") @@
        ("userId" :> "ID Usuário") @@
        ("timestamp" :> "Momento") @@
        ("pronafAbilityRegistration" :> "Registro Habilidade Pronaf") @@
        ("digitalSignatureCode" :> "Código Assinatura Digital") @@
        ("paymentMethod" :> "Método Pagamento") @@
        ("operation" :> "Operação") @@
        ("operationTypeName" :> "Nome Tipo Operação") @@
        ("value" :> "Valor") @@
        ("itemDeliveryDate" :> "Data Entrega") @@
        ("movementDate" :> "Data Movimentação") @@
        ("issueDate" :> "Data Emissão") @@
        ("number" :> "Número") @@
        ("serialCode" :> "Código Série") @@
        ("typeCode" :> "Código Tipo") @@
        ("receiptTypeCode" :> "Código Tipo Recibo") @@
        ("accessKey" :> "Chave Acesso"))
  IN Tuple(<<df_issuer, df_recipient, df_document>>)

\* AccountabilityV3RepasseAPI.get_documento_despesas_prestacao_contas, from res.json() on:
\* what it returns or raises on the body json of an accepted response
Repasse_get_documento_despesas_prestacao_contas_result(json) ==
  LET df_issuer == _handle_results(
        Subscript(json, "issuer"),
        None,
        <<>>,
        <<>>,
        ("phoneNumber" :> "Telefone") @@
        ("postalCode" :> "CEP") @@
        ("additionalAddressInformation" :> "Endereço") @@
        ("districtName" :> "Bairro") @@
        ("cityName" :> "Cidade") @@
        ("stateAbbreviation" :> "UF") @@
        ("countryName" :> "Nacionalidade") @@
        ("tradeName" :> "Nome Social") @@
        ("legalName" :> "Nome Legal") @@
        ("stateRegistrationNumber" :> "RG") @@
        ("individualTaxPayerRegistry" :> "CPF") @@
        ("corporateTaxPayerRegistry" :> "CNPJ"))
      df_recipient == _handle_results(
        Subscript(json, "recipient"),
        None,
        <<>>,
        <<>>,
        ("typeConsumerCode" :> "Código Tipo Consumidor") @@
        ("presenceTypeCode" :> "Código Tipo Presença") @@
        ("phoneNumber" :> "Telefone") @@
        ("postalCode" :> "CEP") @@
        ("additionalAddressInformation" :> "Endereço") @@
        ("districtName" :> "Bairro") @@
        ("cityName" :> "Cidade") @@
        ("stateAbbreviation" :> "UF") @@
        ("countryName" :> "Nacionalidade") @@
        ("tradeName" :> "Nome Social") @@
        ("legalName" :> "Nome Legal") @@
        ("stateRegistrationNumber" :> "RG") @@
        ("individualTaxPayerRegistry" :> "CPF") @@
        ("corporateTaxPayerRegistry" :> "CNPJ"))
      df_document == _handle_results(
        Subscript(json, "expenseDocument"),
        "items",
        <<"accessKey",
          "receiptTypeCode",
          "typeCode",
          "serialCode",
          "number",
          "issueDate",
          "movementDate",
          "itemDeliveryDate",
          "value",
          "operationTypeName",
          "operation",
          "paymentMethod",
          "digitalSignatureCode",
          "pronafAbilityRegistration",
          "timestamp",
          "userId",
          "discountValue",
          "totalDiscountValue",
          "realeaseInstrumentCode",
          "realeaseInstrumentName",
          "realeaseInstrumentDate",
          "additionalInformation">>,
        <<>>,
        ("itemDiscountValue" :> "Valor Desconto Item") @@
        ("mercosurCommonNameId" :> "ID Nome Comum Mercosul") @@
        ("totalValue" :> "Valor Total Item") @@
        ("unitValue" :> "Valor Unitário Item") @@
        ("metric" :> "Métrica Item") @@
        ("quantity" :> "Quantidade Item") @@
        ("description" :> "Descrição Item") @@
        ("additionalInformation" :> "Informação Adicional") @@
        ("realeaseInstrumentDate" :> "Data Liberação Instrumento") @@
        ("realeaseInstrumentName" :> "Nome Liberação Instrumento") @@
        ("realeaseInstrumentCode" :> "Código Liberação de Instrumento") @@
        ("totalDiscountValue" :> "Valor Total Desconto") @@
        ("discountValue" :> "Valor Desconto") @@
        ("userId" :> "ID Usuário") @@
        ("timestamp" :> "Momento") @@
        ("pronafAbilityRegistration" :> "Registro Habilidade Pronaf") @@
        ("digitalSignatureCode" :> "Código Assinatura Digital") @@
        ("paymentMethod" :> "Método Pagamento") @@
        ("operation" :> "Operação") @@
        ("operationTypeName" :> "Nome Tipo Operação") @@
        ("value" :> "Valor") @@
        ("itemDeliveryDate" :> "Data Entrega") @@
        ("movementDate" :> "Data Movimentação") @@
        ("issueDate" :> "Data Emissão") @@
        ("number" :> "Número") @@
        ("serialCode" :> "Código Série") @@
        ("typeCode" :> "Código Tipo") @@
        ("receiptTypeCode" :> "Código Tipo Recibo") @@
        ("accessKey" :> "Chave Acesso"))
  IN Tuple(<<df_issuer, df_recipient, df_document>>)

\* AccountabilityV3RepasseAPI.get_extrato_subtransacoes_programa_governo, from res.json() on:
\* what it returns or raises on the body json of an accepted response
Repasse_get_extrato_subtransacoes_programa_governo_result(json) ==
  _handle_results(
    json,
    "subtransactions",
    <<"governmentProgramCode",
      "governmentProgramName",
      "governmentSubProgramCode",
      "governmentSubProgramName">>,
    <<"expensesCategory",
      "expensesDocuments">>,
    ("expensesDocuments" :> "Documentos Despesa") @@
    ("name" :> "Nome Categoria Despesa") @@
    ("parentCode" :> "Código Pai Categoria Despesa") @@
    ("code" :> "Código Categoria Despesa") @@
    ("expenseSequentialNumber" :> "Número Sequencial Despesa") @@
    ("bankOrderPurposeDescription" :> "Descrição Finalidade Ordem Banco") @@
    ("bankOrderRuleCode" :> "Código Ordem Pagamento Banco") @@
    ("bankOrderPurposeCode" :> "Código Finalidade Ordem Banco") @@
    ("subtransactionAccountabilityName" :> "Nome Contabilidade Subtransação") @@
    ("subtransactionAccountabilityIndicator" :> "Indicador Contabilidade Subtransação") @@
    ("expenseCategoryCode" :> "Código Categoria Despesa") @@
    ("attachedExpenseDocumentIndicator" :> "Indicador Anexo Documento Despesa") @@
    ("beneficiaryName" :> "Nome Beneficiário") @@
    ("beneficiaryDocumentId" :> "ID Documento Beneficiário") @@
    ("beneficiaryPersonType" :> "Tipo Pessoa Beneficiário") @@
    ("beneficiaryAccountNumber" :> "Número Conta Beneficiário") @@
    ("beneficiaryBranchCode" :> "Código Agência Beneficiário") @@
    ("beneficiaryBankIdentifierCode" :> "Código Identificador Banco Beneficiário") @@
    ("value" :> "Valor") @@
    ("paymentDate" :> "Data Pagamento") @@
    ("paymentState" :> "Estado Pagamento") @@
    ("codeSubtransactionState" :> "Estado Código Subtransação") @@
    ("id" :> "ID") @@
    ("governmentSubProgramName" :> "Nome SubPrograma Governo") @@
    ("governmentSubProgramCode" :> "Código SubPrograma Governo") @@
    ("governmentProgramName" :> "Nome Programa Governo") @@
    ("governmentProgramCode" :> "Código Programa Governo"))

\* AccountabilityV3RepasseAPI.get_extrato_fundos_investimento, from res.json() on:
\* what it returns or raises on the body json of an accepted response
Repasse_get_extrato_fundos_investimento_result(json) ==
  LET res1 == MoveKey(json, "extrato", "valorCota", "valorCotaExtrato")
      df == _handle_results(
        Subscript(res1, "extrato"),
        "listaLancamentosExtrato",
        <<"numeroAgenciaRecebedora",
          "digitoVerificadorContaRecebedora",
          "numeroContaCorrenteRecebedora",
          "numeroDigitoVerificadorContaCorrenteRecebedora",
          "nomeClienteRecebedor",
          "nomeFundoInvestimento",
          "CNPJFundoInvestimento",
          "valorCotaExtrato",
          "dataAfericaoValorCota",
          "ultimaCotacaoCota",
          "dataUltimaCotacaoCota",
          "sinalRentabilidadeMes",
          "valorRentabilidadeMes",
          "sinalRentabilidadeAno",
          "valorRentabilidadeAno",
          "sinalRentabilidadeResgateTotal",
          "valorRentabilidadeResgateTotal",
          "valorDisponivelResgate",
          "valorCarenciaResgate",
          "valorIRPrevisto",
          "percentualIRPrevisto",
          "valorIRComplementarPrevisto",
          "valorIOFPrevisto",
          "valorTaxaSaida",
          "valorBonusDesempenho",
          "valorBloqueado",
          "valorAplicado",
          "valorResgate",
          "valorSaldoAnterior",
          "quantidadeCotaAnterior",
          "dataSaldoAnterior",
          "valorTotalAplicadoPeriodo",
          "valorTotalResgatadoPeriodo",
          "sinalRendimentoBrutoPeriodo",
          "valorRendimentoBrutoPeriodo",
          "valorTotalIRPeriodo",
          "valorTotalIOFPeriodo",
          "valorTotalTaxaSaidaPeriodo",
          "valorTotalBonusDesempenhoPeriodo",
          "sinalRendimentoLiquido",
          "valorRendimentoLiquido",
          "valorSaldoMesAnterior",
          "quantidadeCotaMesAnterior",
          "dataSaldoMesAnterior",
          "numeroLancamento">>,
        <<>>,
        ("numeroDocumentoLancamento" :> "Número Documento Lançamento") @@
        ("valorBaseCalculoIR" :> "Valor Base Cálculo IR") @@
        ("saldoCotas" :> "Saldo Cotas") @@
        ("valorCota" :> "Valor Cota Lançamento") @@
        ("quantidadeCota" :> "Quantidade Cota") @@
        ("valorIOF" :> "Valor IOF") @@
        ("valorPrejuizo" :> "Valor Prejuízo") @@
        ("valorIR" :> "Valor IR") @@
        ("valorLancamento" :> "Valor Lançamento") @@
        ("descricao" :> "Descrição") @@
        ("dataLancamento" :> "Data Lançamento") @@
        ("numeroLancamento" :> "Número Lançamento") @@
        ("dataSaldoMesAnterior" :> "Data Saldo Mês Anterior") @@
        ("quantidadeCotaMesAnterior" :> "Quantidade Cota Mês Anterior") @@
        ("valorSaldoMesAnterior" :> "Valor Saldo Mês Anterior") @@
        ("valorRendimentoLiquido" :> "Valor Rendimento Líquido") @@
        ("sinalRendimentoLiquido" :> "Sinal Rendimento Líquido") @@
        ("valorTotalBonusDesempenhoPeriodo" :> "Valor Total Bônus Desempenho Período") @@
        ("valorTotalTaxaSaidaPeriodo" :> "Valor Total Taxa Saída Período") @@
        ("valorTotalIOFPeriodo" :> "Valor Total IOF Período") @@
        ("valorTotalIRPeriodo" :> "Valor Total IR Período") @@
        ("valorRendimentoBrutoPeriodo" :> "Valor Rendimento Bruto Período") @@
        ("sinalRendimentoBrutoPeriodo" :> "Sinal Rendimento Bruto Período") @@
        ("valorTotalResgatadoPeriodo" :> "Valor Total Resgatado Período") @@
        ("valorTotalAplicadoPeriodo" :> "Valor Total Aplicado Período") @@
        ("dataSaldoAnterior" :> "Data Saldo Anterior") @@
        ("quantidadeCotaAnterior" :> "Quantidade Cota Anterior") @@
        ("valorSaldoAnterior" :> "Valor Saldo Anterior") @@
        ("valorResgate" :> "Valor Resgate") @@
        ("valorAplicado" :> "Valor Aplicado") @@
        ("valorBloqueado" :> "Valor Bloqueado") @@
        ("valorBonusDesempenho" :> "Valor Bônus Desempenho") @@
        ("valorTaxaSaida" :> "Valor Taxa Saída") @@
        ("valorIOFPrevisto" :> "Valor IOF Previsto") @@
        ("valorIRComplementarPrevisto" :> "Valor IR Complementar Previsto") @@
        ("percentualIRPrevisto" :> "Percentual IR Previsto") @@
        ("valorIRPrevisto" :> "Valor IR Previsto") @@
        ("valorCarenciaResgate" :> "Valor Carência Resgate") @@
        ("valorDisponivelResgate" :> "Valor Disponível Resgate") @@
        ("valorRentabilidadeResgateTotal" :> "Valor Rentabilidade Resgate Total") @@
        ("sinalRentabilidadeResgateTotal" :> "Sinal Rentabilidade Resgate Total") @@
        ("valorRentabilidadeAno" :> "Valor Rentabilidade Ano") @@
        ("sinalRentabilidadeAno" :> "Sinal Rentabilidade Ano") @@
        ("valorRentabilidadeMes" :> "Valor Rentabilidade Mês") @@
        ("sinalRentabilidadeMes" :> "Sinal Rentabilidade Mês") @@
        ("dataUltimaCotacaoCota" :> "Data Última Cotação Cota") @@
        ("ultimaCotacaoCota" :> "Última Cotação Cota") @@
        ("dataAfericaoValorCota" :> "Data Afericão Valor Cota") @@
        ("valorCotaExtrato" :> "Valor Cota Extrato") @@
        ("CNPJFundoInvestimento" :> " CNPJ Fundo Investimento") @@
        ("nomeFundoInvestimento" :> "Nome Fundo Investimento") @@
        ("nomeClienteRecebedor" :> "Nome Cliente Recebedor") @@
        ("numeroDigitoVerificadorContaCorrenteRecebedora" :> "Número Dígito Verificador Conta Corrente Recebedora") @@
        ("numeroContaCorrenteRecebedora" :> "Número Conta Corrente Recebedora") @@
        ("digitoVerificadorContaRecebedora" :> "Dígito Verificador Conta Recebedora") @@
        ("numeroAgenciaRecebedora" :> "Número Agência Recebedora"))
      df1 == Insert(df, "Código Programa Governo", Subscript(res1, "codigoProgramaGoverno"))
      df2 == Insert(df1, "Nome Programa Governo", Subscript(res1, "nomeProgramaGoverno"))
      df3 == Insert(df2, "Código SubPrograma Governo", Subscript(res1, "codigoSubProgramaGoverno"))
      df4 == Insert(df3, "Nome SubPrograma Governo", Subscript(res1, "nomeSubProgramaGoverno"))
  IN df4

\* AccountabilityV3RepasseAPI.get_extrato_poupanca, from res.json() on:
\* what it returns or raises on the body json of an accepted response
Repasse_get_extrato_poupanca_result(json) ==
  _handle_results(
    json,
    "listaLancamentos",
    <<"codigoProgramaGoverno",
      "nomeProgramaGoverno",
      "codigoSubProgramaGoverno",
      "nomeSubProgramaGoverno",
      "nomeCliente",
      "identificadorCliente",
      "saldoAnterior",
      "saldoAtual",
      "saldoBloqueado",
      "saldoDisponivel">>,
    <<>>,
    ("valorLancamento" :> "Valor Lançamento") @@
    ("numeroDocumento" :> "Número Documento") @@
    ("agenciaOrigem" :> "Agência Origem") @@
    ("indicadorDebitoCredito" :> "Indicador Débito Crédito") @@
    ("descricaoHistorico" :> "Descrição Histórico") @@
    ("codigoHistorico" :> "Código Histórico") @@
    ("diaLancamento" :> "Dia Lançamento") @@
    ("dataMovimento" :> "Data Movimento") @@
    ("dataLancamento" :> "Data Lançamento") @@
    ("saldoDisponivel" :> "Saldo Disponível") @@
    ("saldoBloqueado" :> "Saldo Bloqueado") @@
    ("saldoAtual" :> "Saldo Atual") @@
    ("saldoAnterior" :> "Saldo Anterior") @@
    ("identificadorCliente" :> "Identificador Cliente") @@
    ("nomeCliente" :> "Nome Cliente") @@
    ("nomeSubProgramaGoverno" :> "Nome SubPrograma Governo") @@
    ("codigoSubProgramaGoverno" :> "Código SubPrograma Governo") @@
    ("nomeProgramaGoverno" :> "Nome Programa Governo") @@
    ("codigoProgramaGoverno" :> "Código Programa Governo"))

\* AccountabilityV3RepasseAPI.get_lancamentos_atualizados, from res.json() on:
\* what it returns or raises on the body json of an accepted response
Repasse_get_lancamentos_atualizados_result(json) ==
  _handle_results(
    json,
    "listaLancamentos",
    <<"totalPaginas">>,
    <<>>,
    ("sequencialLancamento" :> "Sequencial Lançamento") @@
    ("contaCorrente" :> "Conta Corrente") @@
    ("agencia" :> "Agência") @@
    ("totalPaginas" :> "Total Páginas"))

\* AccountabilityV3RepasseAPI.get_sublancamentos_atualizados, from res.json() on:
\* what it returns or raises on the body json of an accepted response
Repasse_get_sublancamentos_atualizados_result(json) ==
  _handle_results(
    json,
    "listaSublancamentos",
    <<"totalPaginas">>,
    <<>>,
    ("sequencialSublancamento" :> "Sequencial Sublançamento") @@
    ("sequencialLancamento" :> "Sequencial Lançamento") @@
    ("contaCorrente" :> "Conta Corrente") @@
    ("agencia" :> "Agência") @@
    ("totalPaginas" :> "Total Páginas"))

\* AccountabilityV3RepasseAPI.get_categorias_programa_governo, from res.json() on:
\* what it returns or raises on the body json of an accepted response
Repasse_get_categorias_programa_governo_result(json) ==
  _handle_results(
    json,
    "categorias",
    <<>>,
    <<>>,
    ("indicadorDespesaAtiva" :> "Indicador Despesa Ativa") @@
    ("codigoCategoriaAgrupadora" :> "Código Categoria Agrupadora") @@
    ("nome" :> "Nome Categoria") @@
    ("codigo" :> "Código Categoria"))

\* AccountabilityV3RepasseAPI.get_saldo_aplicacoes_financeiras, from res.json() on:
\* what it returns or raises on the body json of an accepted response
Repasse_get_saldo_aplicacoes_financeiras_result(json) ==
  _handle_results(
    json,
    "operacoes",
    <<"dataSaldo",
      "valorDisponibilidade">>,
    <<>>,
    ("mensagemSaldoApurado" :> "Mensagem Saldo Apurado") @@
    ("indicadorSaldoNaoDisponivel" :> "Indicador Saldo Não Disponível") @@
    ("valor" :> "Valor") @@
    ("codigo" :> "Código") @@
    ("valorDisponibilidade" :> "Valor Disponibilidade") @@
    ("dataSaldo" :> "Data Saldo"))

\* AccountabilityV3RepasseAPI.get_saldo_conta_corrente, from res.json() on:
\* what it returns or raises on the body json of an accepted response
Repasse_get_saldo_conta_corrente_result(json) ==
  _handle_results(
    json,
    None,
    <<>>,
    <<>>,
    ("valorDisponibilidade" :> "Valor Disponibilidade") @@
    ("dataSaldo" :> "Data Saldo"))

\* AccountabilityV3RepasseAPI.post_categoria_despesa_lancamento_credito, from res.json() on:
\* what it returns or raises on the body json of an accepted response
Repasse_post_categoria_despesa_lancamento_credito_result(json) ==
  _handle_results(
    json,
    None,
    <<>>,
    <<>>,
    ("timestampInclusaoCategoriaDespesa" :> "Momento Inclusão Categoria Despesa"))

\* AccountabilityV3RepasseAPI.post_identificacao_lancamento_credito, from res.json() on:
\* what it returns or raises on the body json of an accepted response
Repasse_post_identificacao_lancamento_credito_result(json) ==
  _handle_results(
    json,
    None,
    <<>>,
    <<>>,
    ("timestampInclusaoIdentificacaoLancamento" :> "Momento Inclusão Identificação Lançamento") @@
    ("numeroSequencialIdentificacaoLancamento" :> "Número Sequencial Identificação Lançamento") @@
    ("numeroSequencialLancamentoContaCorrente" :> "Número Sequencial Lançamento Conta Corrente"))

\* AccountabilityV3RepasseAPI.delete_identificacao_lancamento_credito, from res.json() on:
\* what it returns or raises on the body json of an accepted response
Repasse_delete_identificacao_lancamento_credito_result(json) ==
  _handle_results(
    json,
    None,
    <<>>,
    <<>>,
    ("timestampExclusaoIdentificacaoLancamento" :> "Momento Exclusão Identificação Lançamento"))

\* AccountabilityV3RepasseAPI.get_identificacao_lancamento_debito, from res.json() on:
\* what it returns or raises on the body json of an accepted response
Repasse_get_identificacao_lancamento_debito_result(json) ==
  _handle_results(
    json,
    "listaLancamento",
    <<"numeroPaginaTotal",
      "quantidadeIdentificacaoLancamento">>,
    <<>>,
    ("valorFracionado" :> "Valor Fracionado") @@
    ("numeroCompanhia" :> "Número Companhia") @@
    ("codigoIdentificacao" :> "Código Identificação") @@
    ("tipoIdentificacaoTexto" :> "Tipo Identificação Texto") @@
    ("tipoIdentificacao" :> "Tipo Identificação") @@
    ("numeroSequencialIdentificacaoLancamento" :> "Número Sequencial Identificação Lançamento") @@
    ("numeroSequencialLancamentoContaCorrente" :> "Número Sequencial Lançamento Conta Corrente") @@
    ("quantidadeIdentificacaoLancamento" :> "Quantidade Identificação Lançamento") @@
    ("numeroPaginaTotal" :> "Número Página Total"))

\* AccountabilityV3ControleAPI.get_extrato_programa_governo, from res.json() on:
\* what it returns or raises on the body json of an accepted response
Controle_get_extrato_programa_governo_result(json) ==
  _handle_results(
    json,
    "transactions",
    <<"governmentProgramCode",
      "governmentProgramName",
      "governmentSubProgramCode",
      "governmentSubProgramName">>,
    <<"expensesDocuments">>,
    ("expensesDocuments" :> "ID Documento Despesa") @@
    ("expensesCategory" :> "Categoria Despesa") @@
    ("expenseSequentialNumber" :> "Número Sequencial Despesa") @@
    ("bankOrderPurposeDescription" :> "Descrição Finalidade Ordem Banco") @@
    ("bankOrderPurposeCode" :> "Código Finalidade Ordem Banco") @@
    ("bankOrderRuleCode" :> "Código Ordem Pagamento Banco") @@
    ("subTransactionQuantity" :> "Quantidade Subtransações") @@
    ("expenseIdentificationStatus" :> "Status Identificação Despesa") @@
    ("expenseCategoryCode" :> "Código Categoria Despesa") @@
    ("attachedExpenseDocumentIndicator" :> "Indicador Anexo Documento Despesa") @@
    ("pendingExpenseConciliation" :> "Conciliação Despesa Pendente") @@
    ("beneficiaryName" :> "Nome Beneficiário") @@
    ("beneficiaryDocumentId" :> "ID Documento Beneficiário") @@
    ("beneficiaryPersonType" :> "Tipo Pessoa Beneficiário") @@
    ("beneficiaryAccountNumber" :> "Número Conta Beneficiário") @@
    ("beneficiaryBranchCode" :> "Código Agência Beneficiário") @@
    ("beneficiaryBankIdentifierCode" :> "Código Identificador Banco Beneficiário") @@
    ("creditDebitIndicator" :> "Indicador Crédito Débito") @@
    ("descriptionBatchNumber" :> "Número Lote Descrição") @@
    ("descriptionName" :> "Nome Descrição") @@
    ("descriptionCode" :> "Código Descrição") @@
    ("accountBalance" :> "Saldo Conta") @@
    ("value" :> "Valor") @@
    ("referenceNumber" :> "Número Referência") @@
    ("valueDate" :> "Data Valor") @@
    ("orderIndex" :> "Índice Ordem") @@
    ("bookingDate" :> "Data Agendamento") @@
    ("id" :> "ID Transação") @@
    ("governmentSubProgramName" :> "Nome SubPrograma Governo") @@
    ("governmentSubProgramCode" :> "Código SubPrograma Governo") @@
    ("governmentProgramName" :> "Nome Programa Governo") @@
    ("governmentProgramCode" :> "Código Programa Governo"))

\* AccountabilityV3ControleAPI.get_documento_despesas_programa_governo, from res.json() on:
\* what it returns or raises on the body json of an accepted response
Controle_get_documento_despesas_programa_governo_result(json) ==
  LET df_issuer == _handle_results(
        Subscript(json, "issuer"),
        None,
        <<>>,
        <<>>,
        ("phoneNumber" :> "Telefone") @@
        ("postalCode" :> "CEP") @@
        ("additionalAddressInformation" :> "Endereço") @@
        ("districtName" :> "Bairro") @@
        ("cityName" :> "Cidade") @@
        ("stateAbbreviation" :> "UF") @@
        ("countryName" :> "Nacionalidade") @@
        ("tradeName" :> "Nome Social") @@
        ("legalName" :> "Nome Legal") @@
        ("stateRegistrationNumber" :> "RG") @@
        ("individualTaxPayerRegistry" :> "CPF") @@
        ("corporateTaxPayerRegistry" :> "CNPJ"))
      df_recipient == _handle_results(
        Subscript(json, "recipient"),
        None,
        <<>>,
        <<>>,
        ("typeConsumerCode" :> "Código Tipo Consumidor") @@
        ("presenceTypeCode" :> "Código Tipo Presença") @@
        ("phoneNumber" :> "Telefone") @@
        ("postalCode" :> "CEP") @@
        ("additionalAddressInformation" :> "Endereço") @@
        ("districtName" :> "Bairro") @@
        ("cityName" :> "Cidade") @@
        ("stateAbbreviation" :> "UF") @@
        ("countryName" :> "Nacionalidade") @@
        ("tradeName" :> "Nome Social") @@
        ("legalName" :> "Nome Legal") @@
        ("stateRegistrationNumber" :> "RG") @@
        ("individualTaxPayerRegistry" :> "CPF") @@
        ("corporateTaxPayerRegistry" :> "CNPJ"))
      df_document == _handle_results(
        Subscript(json, "expenseDocument"),
        "items",
        <<"accessKey",
          "receiptTypeCode",
          "typeCode",
          "serialCode",
          "number",
          "issueDate",
          "movementDate",
          "itemDeliveryDate",
          "value",
          "operationTypeName",
          "operation",
          "paymentMethod",
          "digitalSignatureCode",
          "pronafAbilityRegistration",
          "timestamp",
          "userId",
          "discountValue",
          "totalDiscountValue",
          "realeaseInstrumentCode",
          "realeaseInstrumentName",
          "realeaseInstrumentDate",
          "additionalInformation">>,
        <<>>,
        ("itemDiscountValue" :> "Valor Desconto Item") @@
        ("mercosurCommonNameId" :> "ID Nome Comum Mercosul") @@
        ("totalValue" :> "Valor Total Item") @@
        ("unitValue" :> "Valor Unitário Item") @@
        ("metric" :> "Métrica Item") @@
        ("quantity" :> "Quantidade Item") @@
        ("description" :> "Descrição Item") @@
        ("additionalInformation" :> "Informação Adicional") @@
        ("realeaseInstrumentDate" :> "Data Liberação Instrumento") @@
        ("realeaseInstrumentName" :> "Nome Liberação Instrumento") @@
        ("realeaseInstrumentCode" :> "Código Liberação de Instrumento") @@
        ("totalDiscountValue" :> "Valor Total Desconto") @@
        ("discountValue" :> "Valor Desconto") @@
        ("userId" :> "ID Usuário") @@
        ("timestamp" :> "Momento") @@
        ("pronafAbilityRegistration" :> "Registro Habilidade Pronaf") @@
        ("digitalSignatureCode" :> "Código Assinatura Digital") @@
        ("paymentMethod" :> "Método Pagamento") @@
        ("operation" :> "Operação") @@
        ("operationTypeName" :> "Nome Tipo Operação") @@
        ("value" :> "Valor") @@
        ("itemDeliveryDate" :> "Data Entrega") @@
        ("movementDate" :> "Data Movimentação") @@
        ("issueDate" :> "Data Emissão") @@
        ("number" :> "Número") @@
        ("serialCode" :> "Código Série") @@
        ("typeCode" :> "Código Tipo") @@
        ("receiptTypeCode" :> "Código Tipo Recibo") @@
        ("accessKey" :> "Chave Acesso"))
  IN Tuple(<<df_issuer, df_recipient, df_document>>)

\* AccountabilityV3ControleAPI.get_documento_despesas_prestacao_contas, from res.json() on:
\* what it returns or raises on the body json of an accepted response
Controle_get_documento_despesas_prestacao_contas_result(json) ==
  LET df_issuer == _handle_results(
        Subscript(json, "issuer"),
        None,
        <<>>,
        <<>>,
        ("phoneNumber" :> "Telefone") @@
        ("postalCode" :> "CEP") @@
        ("additionalAddressInformation" :> "Endereço") @@
        ("districtName" :> "Bairro") @@
        ("cityName" :> "Cidade") @@
        ("stateAbbreviation" :> "UF") @@
        ("countryName" :> "Nacionalidade") @@
        ("tradeName" :> "Nome Social") @@
        ("legalName" :> "Nome Legal") @@
        ("stateRegistrationNumber" :> "RG") @@
        ("individualTaxPayerRegistry" :> "CPF") @@
        ("corporateTaxPayerRegistry" :> "CNPJ"))
      df_recipient == _handle_results(
        Subscript(json, "recipient"),
        None,
        <<>>,
        <<>>,
        ("typeConsumerCode" :> "Código Tipo Consumidor") @@
        ("presenceTypeCode" :> "Código Tipo Presença") @@
        ("phoneNumber" :> "Telefone") @@
        ("postalCode" :> "CEP") @@
        ("additionalAddressInformation" :> "Endereço") @@
        ("districtName" :> "Bairro") @@
        ("cityName" :> "Cidade") @@
        ("stateAbbreviation" :> "UF") @@
        ("countryName" :> "Nacionalidade") @@
        ("tradeName" :> "Nome Social") @@
        ("legalName" :> "Nome Legal") @@
        ("stateRegistrationNumber" :> "RG") @@
        ("individualTaxPayerRegistry" :> "CPF") @@
        ("corporateTaxPayerRegistry" :> "CNPJ"))
      df_document == _handle_results(
        Subscript(json, "expenseDocument"),
        "items",
        <<"accessKey",
          "receiptTypeCode",
          "typeCode",
          "serialCode",
          "number",
          "issueDate",
          "movementDate",
          "itemDeliveryDate",
          "value",
          "operationTypeName",
          "operation",
          "paymentMethod",
          "digitalSignatureCode",
          "pronafAbilityRegistration",
          "timestamp",
          "userId",
          "discountValue",
          "totalDiscountValue",
          "realeaseInstrumentCode",
          "realeaseInstrumentName",
          "realeaseInstrumentDate",
          "additionalInformation">>,
        <<>>,
        ("itemDiscountValue" :> "Valor Desconto Item") @@
        ("mercosurCommonNameId" :> "ID Nome Comum Mercosul") @@
        ("totalValue" :> "Valor Total Item") @@
        ("unitValue" :> "Valor Unitário Item") @@
        ("metric" :> "Métrica Item") @@
        ("quantity" :> "Quantidade Item") @@
        ("description" :> "Descrição Item") @@
        ("additionalInformation" :> "Informação Adicional") @@
        ("realeaseInstrumentDate" :> "Data Liberação Instrumento") @@
        ("realeaseInstrumentName" :> "Nome Liberação Instrumento") @@
        ("realeaseInstrumentCode" :> "Código Liberação de Instrumento") @@
        ("totalDiscountValue" :> "Valor Total Desconto") @@
        ("discountValue" :> "Valor Desconto") @@
        ("userId" :> "ID Usuário") @@
        ("timestamp" :> "Momento") @@
        ("pronafAbilityRegistration" :> "Registro Habilidade Pronaf") @@
        ("digitalSignatureCode" :> "Código Assinatura Digital") @@
        ("paymentMethod" :> "Método Pagamento") @@
        ("operation" :> "Operação") @@
        ("operationTypeName" :> "Nome Tipo Operação") @@
        ("value" :> "Valor") @@
        ("itemDeliveryDate" :> "Data Entrega") @@
        ("movementDate" :> "Data Movimentação") @@
        ("issueDate" :> "Data Emissão") @@
        ("number" :> "Número") @@
        ("serialCode" :> "Código Série") @@
        ("typeCode" :> "Código Tipo") @@
        ("receiptTypeCode" :> "Código Tipo Recibo") @@
        ("accessKey" :> "Chave Acesso"))
  IN Tuple(<<df_issuer, df_recipient, df_document>>)

\* AccountabilityV3ControleAPI.get_extrato_subtransacoes_programa_governo, from res.json() on:
\* what it returns or raises on the body json of an accepted response
Controle_get_extrato_subtransacoes_programa_governo_result(json) ==
  _handle_results(
    json,
    "subtransactions",
    <<"governmentProgramCode",
      "governmentProgramName",
      "governmentSubProgramCode",
      "governmentSubProgramName">>,
    <<"expensesCategory",
      "expensesDocuments">>,
    ("expensesDocuments" :> "Documentos Despesa") @@
    ("name" :> "Nome Categoria Despesa") @@
    ("parentCode" :> "Código Pai Categoria Despesa") @@
    ("code" :> "Código Categoria Despesa") @@
    ("expenseSequentialNumber" :> "Número Sequencial Despesa") @@
    ("bankOrderPurposeDescription" :> "Descrição Finalidade Ordem Banco") @@
    ("bankOrderRuleCode" :> "Código Ordem Pagamento Banco") @@
    ("bankOrderPurposeCode" :> "Código Finalidade Ordem Banco") @@
    ("subtransactionAccountabilityName" :> "Nome Contabilidade Subtransação") @@
    ("subtransactionAccountabilityIndicator" :> "Indicador Contabilidade Subtransação") @@
    ("expenseCategoryCode" :> "Código Categoria Despesa") @@
    ("attachedExpenseDocumentIndicator" :> "Indicador Anexo Documento Despesa") @@
    ("beneficiaryName" :> "Nome Beneficiário") @@
    ("beneficiaryDocumentId" :> "ID Documento Beneficiário") @@
    ("beneficiaryPersonType" :> "Tipo Pessoa Beneficiário") @@
    ("beneficiaryAccountNumber" :> "Número Conta Beneficiário") @@
    ("beneficiaryBranchCode" :> "Código Agência Beneficiário") @@
    ("beneficiaryBankIdentifierCode" :> "Código Identificador Banco Beneficiário") @@
    ("value" :> "Valor") @@
    ("paymentDate" :> "Data Pagamento") @@
    ("paymentState" :> "Estado Pagamento") @@
    ("codeSubtransactionState" :> "Estado Código Subtransação") @@
    ("id" :> "ID") @@
    ("governmentSubProgramName" :> "Nome SubPrograma Governo") @@
    ("governmentSubProgramCode" :> "Código SubPrograma Governo") @@
    ("governmentProgramName" :> "Nome Programa Governo") @@
    ("governmentProgramCode" :> "Código Programa Governo"))

\* AccountabilityV3ControleAPI.get_extrato_fundos_investimento, from res.json() on:
\* what it returns or raises on the body json of an accepted response
Controle_get_extrato_fundos_investimento_result(json) ==
  LET res1 == MoveKey(json, "extrato", "valorCota", "valorCotaExtrato")
      df == _handle_results(
        Subscript(res1, "extrato"),
        "listaLancamentosExtrato",
        <<"numeroAgenciaRecebedora",
          "digitoVerificadorContaRecebedora",
          "numeroContaCorrenteRecebedora",
          "numeroDigitoVerificadorContaCorrenteRecebedora",
          "nomeClienteRecebedor",
          "nomeFundoInvestimento",
          "CNPJFundoInvestimento",
          "valorCotaExtrato",
          "dataAfericaoValorCota",
          "ultimaCotacaoCota",
          "dataUltimaCotacaoCota",
          "sinalRentabilidadeMes",
          "valorRentabilidadeMes",
          "sinalRentabilidadeAno",
          "valorRentabilidadeAno",
          "sinalRentabilidadeResgateTotal",
          "valorRentabilidadeResgateTotal",
          "valorDisponivelResgate",
          "valorCarenciaResgate",
          "valorIRPrevisto",
          "percentualIRPrevisto",
          "valorIRComplementarPrevisto",
          "valorIOFPrevisto",
          "valorTaxaSaida",
          "valorBonusDesempenho",
          "valorBloqueado",
          "valorAplicado",
          "valorResgate",
          "valorSaldoAnterior",
          "quantidadeCotaAnterior",
          "dataSaldoAnterior",
          "valorTotalAplicadoPeriodo",
          "valorTotalResgatadoPeriodo",
          "sinalRendimentoBrutoPeriodo",
          "valorRendimentoBrutoPeriodo",
          "valorTotalIRPeriodo",
          "valorTotalIOFPeriodo",
          "valorTotalTaxaSaidaPeriodo",
          "valorTotalBonusDesempenhoPeriodo",
          "sinalRendimentoLiquido",
          "valorRendimentoLiquido",
          "valorSaldoMesAnterior",
          "quantidadeCotaMesAnterior",
          "dataSaldoMesAnterior",
          "numeroLancamento">>,
        <<>>,
        ("numeroDocumentoLancamento" :> "Número Documento Lançamento") @@
        ("valorBaseCalculoIR" :> "Valor Base Cálculo IR") @@
        ("saldoCotas" :> "Saldo Cotas") @@
        ("valorCota" :> "Valor Cota Lançamento") @@
        ("quantidadeCota" :> "Quantidade Cota") @@
        ("valorIOF" :> "Valor IOF") @@
        ("valorPrejuizo" :> "Valor Prejuízo") @@
        ("valorIR" :> "Valor IR") @@
        ("valorLancamento" :> "Valor Lançamento") @@
        ("descricao" :> "Descrição") @@
        ("dataLancamento" :> "Data Lançamento") @@
        ("numeroLancamento" :> "Número Lançamento") @@
        ("dataSaldoMesAnterior" :> "Data Saldo Mês Anterior") @@
        ("quantidadeCotaMesAnterior" :> "Quantidade Cota Mês Anterior") @@
        ("valorSaldoMesAnterior" :> "Valor Saldo Mês Anterior") @@
        ("valorRendimentoLiquido" :> "Valor Rendimento Líquido") @@
        ("sinalRendimentoLiquido" :> "Sinal Rendimento Líquido") @@
        ("valorTotalBonusDesempenhoPeriodo" :> "Valor Total Bônus Desempenho Período") @@
        ("valorTotalTaxaSaidaPeriodo" :> "Valor Total Taxa Saída Período") @@
        ("valorTotalIOFPeriodo" :> "Valor Total IOF Período") @@
        ("valorTotalIRPeriodo" :> "Valor Total IR Período") @@
        ("valorRendimentoBrutoPeriodo" :> "Valor Rendimento Bruto Período") @@
        ("sinalRendimentoBrutoPeriodo" :> "Sinal Rendimento Bruto Período") @@
        ("valorTotalResgatadoPeriodo" :> "Valor Total Resgatado Período") @@
        ("valorTotalAplicadoPeriodo" :> "Valor Total Aplicado Período") @@
        ("dataSaldoAnterior" :> "Data Saldo Anterior") @@
        ("quantidadeCotaAnterior" :> "Quantidade Cota Anterior") @@
        ("valorSaldoAnterior" :> "Valor Saldo Anterior") @@
        ("valorResgate" :> "Valor Resgate") @@
        ("valorAplicado" :> "Valor Aplicado") @@
        ("valorBloqueado" :> "Valor Bloqueado") @@
        ("valorBonusDesempenho" :> "Valor Bônus Desempenho") @@
        ("valorTaxaSaida" :> "Valor Taxa Saída") @@
        ("valorIOFPrevisto" :> "Valor IOF Previsto") @@
        ("valorIRComplementarPrevisto" :> "Valor IR Complementar Previsto") @@
        ("percentualIRPrevisto" :> "Percentual IR Previsto") @@
        ("valorIRPrevisto" :> "Valor IR Previsto") @@
        ("valorCarenciaResgate" :> "Valor Carência Resgate") @@
        ("valorDisponivelResgate" :> "Valor Disponível Resgate") @@
        ("valorRentabilidadeResgateTotal" :> "Valor Rentabilidade Resgate Total") @@
        ("sinalRentabilidadeResgateTotal" :> "Sinal Rentabilidade Resgate Total") @@
        ("valorRentabilidadeAno" :> "Valor Rentabilidade Ano") @@
        ("sinalRentabilidadeAno" :> "Sinal Rentabilidade Ano") @@
        ("valorRentabilidadeMes" :> "Valor Rentabilidade Mês") @@
        ("sinalRentabilidadeMes" :> "Sinal Rentabilidade Mês") @@
        ("dataUltimaCotacaoCota" :> "Data Última Cotação Cota") @@
        ("ultimaCotacaoCota" :> "Última Cotação Cota") @@
        ("dataAfericaoValorCota" :> "Data Afericão Valor Cota") @@
        ("valorCotaExtrato" :> "Valor Cota Extrato") @@
        ("CNPJFundoInvestimento" :> " CNPJ Fundo Investimento") @@
        ("nomeFundoInvestimento" :> "Nome Fundo Investimento") @@
        ("nomeClienteRecebedor" :> "Nome Cliente Recebedor") @@
        ("numeroDigitoVerificadorContaCorrenteRecebedora" :> "Número Dígito Verificador Conta Corrente Recebedora") @@
        ("numeroContaCorrenteRecebedora" :> "Número Conta Corrente Recebedora") @@
        ("digitoVerificadorContaRecebedora" :> "Dígito Verificador Conta Recebedora") @@
        ("numeroAgenciaRecebedora" :> "Número Agência Recebedora"))
      df1 == Insert(df, "Código Programa Governo", Subscript(res1, "codigoProgramaGoverno"))
      df2 == Insert(df1, "Nome Programa Governo", Subscript(res1, "nomeProgramaGoverno"))
      df3 == Insert(df2, "Código SubPrograma Governo", Subscript(res1, "codigoSubProgramaGoverno"))
      df4 == Insert(df3, "Nome SubPrograma Governo", Subscript(res1, "nomeSubProgramaGoverno"))
  IN df4

\* AccountabilityV3ControleAPI.get_extrato_poupanca, from res.json() on:
\* what it returns or raises on the body json of an accepted response
Controle_get_extrato_poupanca_result(json) ==
  _handle_results(
    json,
    "listaLancamentos",
    <<"codigoProgramaGoverno",
      "nomeProgramaGoverno",
      "codigoSubProgramaGoverno",
      "nomeSubProgramaGoverno",
      "nomeCliente",
      "identificadorCliente",
      "saldoAnterior",
      "saldoAtual",
      "saldoBloqueado",
      "saldoDisponivel">>,
    <<>>,
    ("valorLancamento" :> "Valor Lançamento") @@
    ("numeroDocumento" :> "Número Documento") @@
    ("agenciaOrigem" :> "Agência Origem") @@
    ("indicadorDebitoCredito" :> "Indicador Débito Crédito") @@
    ("descricaoHistorico" :> "Descrição Histórico") @@
    ("codigoHistorico" :> "Código Histórico") @@
    ("diaLancamento" :> "Dia Lançamento") @@
    ("dataMovimento" :> "Data Movimento") @@
    ("dataLancamento" :> "Data Lançamento") @@
    ("saldoDisponivel" :> "Saldo Disponível") @@
    ("saldoBloqueado" :> "Saldo Bloqueado") @@
    ("saldoAtual" :> "Saldo Atual") @@
    ("saldoAnterior" :> "Saldo Anterior") @@
    ("identificadorCliente" :> "Identificador Cliente") @@
    ("nomeCliente" :> "Nome Cliente") @@
    ("nomeSubProgramaGoverno" :> "Nome SubPrograma Governo") @@
    ("codigoSubProgramaGoverno" :> "Código SubPrograma Governo") @@
    ("nomeProgramaGoverno" :> "Nome Programa Governo") @@
    ("codigoProgramaGoverno" :> "Código Programa Governo"))

\* AccountabilityV3ControleAPI.get_contas_correntes, from res.json() on:
\* what it returns or raises on the body json of an accepted response
Controle_get_contas_correntes_result(json) ==
  _handle_results(
    json,
    "listaContaCorrente",
    <<"numeroRegistroConsultar",
      "quantidadeContaCorrente">>,
    <<>>,
    ("contaCorrente" :> "Conta Corrente") @@
    ("nomeAgencia" :> "Nome Agência") @@
    ("agencia" :> "Agência") @@
    ("cnpj" :> "CNPJ") @@
    ("nomeProgramaGoverno" :> "Nome Programa Governo") @@
    ("codigoProgramaGoverno" :> "Código Programa Governo") @@
    ("quantidadeContaCorrente" :> "Quantidade Conta Corrente") @@
    ("numeroRegistroConsultar" :> "Número Registro Consultar"))

\* the public methods of each class (get_agencias_proximas is inherited)
Methods(cls) ==
  CASE cls = "AccountabilityV3RepasseAPI" ->
       {"get_agencias_proximas",
        "get_extrato_programa_governo",
        "get_documento_despesas_programa_governo",
        "get_documento_despesas_prestacao_contas",
        "get_extrato_subtransacoes_programa_governo",
        "get_extrato_fundos_investimento",
        "get_extrato_poupanca",
        "get_lancamentos_atualizados",
        "get_sublancamentos_atualizados",
        "get_categorias_programa_governo",
        "get_saldo_aplicacoes_financeiras",
        "get_saldo_conta_corrente",
        "post_categoria_despesa_lancamento_credito",
        "post_identificacao_lancamento_credito",
        "delete_identificacao_lancamento_credito",
        "get_identificacao_lancamento_debito"}
    [] cls = "AccountabilityV3ControleAPI" ->
       {"get_agencias_proximas",
        "get_extrato_programa_governo",
        "get_documento_despesas_programa_governo",
        "get_documento_despesas_prestacao_contas",
        "get_extrato_subtransacoes_programa_governo",
        "get_extrato_fundos_investimento",
        "get_extrato_poupanca",
        "get_contas_correntes"}

\* the arguments tried for each method: identifiers in their str() form,
\* dates in the three accepted types
Args(cls, op) ==
  CASE cls = "AccountabilityV3RepasseAPI" /\ op = "get_agencias_proximas" ->
       [cnpj : CNPJs, cep : CEPs]
    [] cls = "AccountabilityV3RepasseAPI" /\ op = "get_extrato_programa_governo" ->
       [branch_code : {"1234"}, account_number : {"56789"}, start_date : DateLikes, end_date : DateLikes]
    [] cls = "AccountabilityV3RepasseAPI" /\ op = "get_documento_despesas_programa_governo" ->
       [branch_code : {"1234"}, account_number : {"56789"}, transaction_id : {"1"}, document_id : {"1"}, booking_date : DateLikes]
    [] cls = "AccountabilityV3RepasseAPI" /\ op = "get_documento_despesas_prestacao_contas" ->
       [branch_code : {"1234"}, account_number : {"56789"}, transaction_id : {"1"}, subtransaction_id : {"1"}, document_id : {"1"}, booking_date : DateLikes]
    [] cls = "AccountabilityV3RepasseAPI" /\ op = "get_extrato_subtransacoes_programa_governo" ->
       [branch_code : {"1234"}, account_number : {"56789"}, id : {"1"}, id_subtransaction : {None, "3"}]
    [] cls = "AccountabilityV3RepasseAPI" /\ op = "get_extrato_fundos_investimento" ->
       [agencia : {"1234"}, conta_corrente : {"56789"}, fundo_investimento_id : {"1"}, mes : {"1"}, ano : {"2024"}]
    [] cls = "AccountabilityV3RepasseAPI" /\ op = "get_extrato_poupanca" ->
       [agencia : {"1234"}, conta_corrente : {"56789"}, variacao_poupanca : {"1"}, mes : {"1"}, ano : {"2024"}]
    [] cls = "AccountabilityV3RepasseAPI" /\ op = "get_lancamentos_atualizados" ->
       [numero_programa_governo : {"1"}, data_inicio : DateLikes, data_fim : DateLikes, pagina : {"1"}]
    [] cls = "AccountabilityV3RepasseAPI" /\ op = "get_sublancamentos_atualizados" ->
       [numero_programa_governo : {"1"}, data_inicio : DateLikes, data_fim : DateLikes, pagina : {"1"}]
    [] cls = "AccountabilityV3RepasseAPI" /\ op = "get_categorias_programa_governo" ->
       [numero_programa_governo : {"1"}]
    [] cls = "AccountabilityV3RepasseAPI" /\ op = "get_saldo_aplicacoes_financeiras" ->
       [agencia : {"1234"}, conta_corrente : {"56789"}]
    [] cls = "AccountabilityV3RepasseAPI" /\ op = "get_saldo_conta_corrente" ->
       [agencia : {"1234"}, conta_corrente : {"56789"}]
    [] cls = "AccountabilityV3RepasseAPI" /\ op = "post_categoria_despesa_lancamento_credito" ->
       [ordem_bancaria : {"1"}, item : {"1"}, agencia : {"1234"}, conta_corrente : {"56789"}, codigo_contrato : {"1"}, codigo_unidade_gestora : {"1"}, codigo_categoria_despesa : {"1"}, codigo_listagem_cliente : {"1"}]
    [] cls = "AccountabilityV3RepasseAPI" /\ op = "post_identificacao_lancamento_credito" ->
       [agencia : {"1234"}, conta_corrente : {"56789"}, numero_bancario : {"1"}, numero_sequencial_ordem_bancaria : {"1"}, data_lancamento : DateLikes, numero_companhia : {"1"}, valor_fracionado : {"1"}, tipo_identificacao : {"1"}, codigo_identificacao : {"1"}]
    [] cls = "AccountabilityV3RepasseAPI" /\ op = "delete_identificacao_lancamento_credito" ->
       [agencia : {"1234"}, conta_corrente : {"56789"}, sequencial_lancamento : {"1"}, sequencial_identificacao : {"1"}]
    [] cls = "AccountabilityV3RepasseAPI" /\ op = "get_identificacao_lancamento_debito" ->
       [agencia : {"1234"}, conta_corrente : {"56789"}, numero_pagina : {"1"}]
    [] cls = "AccountabilityV3ControleAPI" /\ op = "get_agencias_proximas" ->
       [cnpj : CNPJs, cep : CEPs]
    [] cls = "AccountabilityV3ControleAPI" /\ op = "get_extrato_programa_governo" ->
       [branch_code : {"1234"}, account_number : {"56789"}, start_date : DateLikes, end_date : DateLikes]
    [] cls = "AccountabilityV3ControleAPI" /\ op = "get_documento_despesas_programa_governo" ->
       [branch_code : {"1234"}, account_number : {"56789"}, transaction_id : {"1"}, document_id : {"1"}, booking_date : DateLikes]
    [] cls = "AccountabilityV3ControleAPI" /\ op = "get_documento_despesas_prestacao_contas" ->
       [branch_code : {"1234"}, account_number : {"56789"}, transaction_id : {"1"}, subtransaction_id : {"1"}, document_id : {"1"}, booking_date : DateLikes]
    [] cls = "AccountabilityV3ControleAPI" /\ op = "get_extrato_subtransacoes_programa_governo" ->
       [branch_code : {"1234"}, account_number : {"56789"}, id : {"1"}]
    [] cls = "AccountabilityV3ControleAPI" /\ op = "get_extrato_fundos_investimento" ->
       [agencia : {"1234"}, conta_corrente : {"56789"}, fundo_investimento_id : {"1"}, mes : {"1"}, ano : {"2024"}]
    [] cls = "AccountabilityV3ControleAPI" /\ op = "get_extrato_poupanca" ->
       [agencia : {"1234"}, conta_corrente : {"56789"}, variacao_poupanca : {"1"}, codigo_variacao : {"1"}]
    [] cls = "AccountabilityV3ControleAPI" /\ op = "get_contas_correntes" ->
       [numero_registro : {"1"}]

\* method op of an object of class cls, up to its request
Invoke(cls, op, self, access_token, a) ==
  CASE cls = "AccountabilityV3RepasseAPI" /\ op = "get_agencias_proximas" ->
       Base_get_agencias_proximas(self, access_token, a)
    [] cls = "AccountabilityV3RepasseAPI" /\ op = "get_extrato_programa_governo" ->
       Repasse_get_extrato_programa_governo(self, access_token, a)
    [] cls = "AccountabilityV3RepasseAPI" /\ op = "get_documento_despesas_programa_governo" ->
       Repasse_get_documento_despesas_programa_governo(self, access_token, a)
    [] cls = "AccountabilityV3RepasseAPI" /\ op = "get_documento_despesas_prestacao_contas" ->
       Repasse_get_documento_despesas_prestacao_contas(self, access_token, a)
    [] cls = "AccountabilityV3RepasseAPI" /\ op = "get_extrato_subtransacoes_programa_governo" ->
       Repasse_get_extrato_subtransacoes_programa_governo(self, access_token, a)
    [] cls = "AccountabilityV3RepasseAPI" /\ op = "get_extrato_fundos_investimento" ->
       Repasse_get_extrato_fundos_investimento(self, access_token, a)
    [] cls = "AccountabilityV3RepasseAPI" /\ op = "get_extrato_poupanca" ->
       Repasse_get_extrato_poupanca(self, access_token, a)
    [] cls = "AccountabilityV3RepasseAPI" /\ op = "get_lancamentos_atualizados" ->
       Repasse_get_lancamentos_atualizados(self, access_token, a)
    [] cls = "AccountabilityV3RepasseAPI" /\ op = "get_sublancamentos_atualizados" ->
       Repasse_get_sublancamentos_atualizados(self, access_token, a)
    [] cls = "AccountabilityV3RepasseAPI" /\ op = "get_categorias_programa_governo" ->
       Repasse_get_categorias_programa_governo(self, access_token, a)
    [] cls = "AccountabilityV3RepasseAPI" /\ op = "get_saldo_aplicacoes_financeiras" ->
       Repasse_get_saldo_aplicacoes_financeiras(self, access_token, a)
    [] cls = "AccountabilityV3RepasseAPI" /\ op = "get_saldo_conta_corrente" ->
       Repasse_get_saldo_conta_corrente(self, access_token, a)
    [] cls = "AccountabilityV3RepasseAPI" /\ op = "post_categoria_despesa_lancamento_credito" ->
       Repasse_post_categoria_despesa_lancamento_credito(self, access_token, a)
    [] cls = "AccountabilityV3RepasseAPI" /\ op = "post_identificacao_lancamento_credito" ->
       Repasse_post_identificacao_lancamento_credito(self, access_token, a)
    [] cls = "AccountabilityV3RepasseAPI" /\ op = "delete_identificacao_lancamento_credito" ->
       Repasse_delete_identificacao_lancamento_credito(self, access_token, a)
    [] cls = "AccountabilityV3RepasseAPI" /\ op = "get_identificacao_lancamento_debito" ->
       Repasse_get_identificacao_lancamento_debito(self, access_token, a)
    [] cls = "AccountabilityV3ControleAPI" /\ op = "get_agencias_proximas" ->
       Base_get_agencias_proximas(self, access_token, a)
    [] cls = "AccountabilityV3ControleAPI" /\ op = "get_extrato_programa_governo" ->
       Controle_get_extrato_programa_governo(self, access_token, a)
    [] cls = "AccountabilityV3ControleAPI" /\ op = "get_documento_despesas_programa_governo" ->
       Controle_get_documento_despesas_programa_governo(self, access_token, a)
    [] cls = "AccountabilityV3ControleAPI" /\ op = "get_documento_despesas_prestacao_contas" ->
       Controle_get_documento_despesas_prestacao_contas(self, access_token, a)
    [] cls = "AccountabilityV3ControleAPI" /\ op = "get_extrato_subtransacoes_programa_governo" ->
       Controle_get_extrato_subtransacoes_programa_governo(self, access_token, a)
    [] cls = "AccountabilityV3ControleAPI" /\ op = "get_extrato_fundos_investimento" ->
       Controle_get_extrato_fundos_investimento(self, access_token, a)
    [] cls = "AccountabilityV3ControleAPI" /\ op = "get_extrato_poupanca" ->
       Controle_get_extrato_poupanca(self, access_token, a)
    [] cls = "AccountabilityV3ControleAPI" /\ op = "get_contas_correntes" ->
       Controle_get_contas_correntes(self, access_token, a)
\* method op of an object of class cls, from res.json() to its return
Result(cls, op, json) ==
  CASE cls = "AccountabilityV3RepasseAPI" /\ op = "get_agencias_proximas" ->
       Base_get_agencias_proximas_result(json)
    [] cls = "AccountabilityV3RepasseAPI" /\ op = "get_extrato_programa_governo" ->
       Repasse_get_extrato_programa_governo_result(json)
    [] cls = "AccountabilityV3RepasseAPI" /\ op = "get_documento_despesas_programa_governo" ->
       Repasse_get_documento_despesas_programa_governo_result(json)
    [] cls = "AccountabilityV3RepasseAPI" /\ op = "get_documento_despesas_prestacao_contas" ->
       Repasse_get_documento_despesas_prestacao_contas_result(json)
    [] cls = "AccountabilityV3RepasseAPI" /\ op = "get_extrato_subtransacoes_programa_governo" ->
       Repasse_get_extrato_subtransacoes_programa_governo_result(json)
    [] cls = "AccountabilityV3RepasseAPI" /\ op = "get_extrato_fundos_investimento" ->
       Repasse_get_extrato_fundos_investimento_result(json)
    [] cls = "AccountabilityV3RepasseAPI" /\ op = "get_extrato_poupanca" ->
       Repasse_get_extrato_poupanca_result(json)
    [] cls = "AccountabilityV3RepasseAPI" /\ op = "get_lancamentos_atualizados" ->
       Repasse_get_lancamentos_atualizados_result(json)
    [] cls = "AccountabilityV3RepasseAPI" /\ op = "get_sublancamentos_atualizados" ->
       Repasse_get_sublancamentos_atualizados_result(json)
    [] cls = "AccountabilityV3RepasseAPI" /\ op = "get_categorias_programa_governo" ->
       Repasse_get_categorias_programa_governo_result(json)
    [] cls = "AccountabilityV3RepasseAPI" /\ op = "get_saldo_aplicacoes_financeiras" ->
       Repasse_get_saldo_aplicacoes_financeiras_result(json)
    [] cls = "AccountabilityV3RepasseAPI" /\ op = "get_saldo_conta_corrente" ->
       Repasse_get_saldo_conta_corrente_result(json)
    [] cls = "AccountabilityV3RepasseAPI" /\ op = "post_categoria_despesa_lancamento_credito" ->
       Repasse_post_categoria_despesa_lancamento_credito_result(json)
    [] cls = "AccountabilityV3RepasseAPI" /\ op = "post_identificacao_lancamento_credito" ->
       Repasse_post_identificacao_lancamento_credito_result(json)
    [] cls = "AccountabilityV3RepasseAPI" /\ op = "delete_identificacao_lancamento_credito" ->
       Repasse_delete_identificacao_lancamento_credito_result(json)
    [] cls = "AccountabilityV3RepasseAPI" /\ op = "get_identificacao_lancamento_debito" ->
       Repasse_get_identificacao_lancamento_debito_result(json)
    [] cls = "AccountabilityV3ControleAPI" /\ op = "get_agencias_proximas" ->
       Base_get_agencias_proximas_result(json)
    [] cls = "AccountabilityV3ControleAPI" /\ op = "get_extrato_programa_governo" ->
       Controle_get_extrato_programa_governo_result(json)
    [] cls = "AccountabilityV3ControleAPI" /\ op = "get_documento_despesas_programa_governo" ->
       Controle_get_documento_despesas_programa_governo_result(json)
    [] cls = "AccountabilityV3ControleAPI" /\ op = "get_documento_despesas_prestacao_contas" ->
       Controle_get_documento_despesas_prestacao_contas_result(json)
    [] cls = "AccountabilityV3ControleAPI" /\ op = "get_extrato_subtransacoes_programa_governo" ->
       Controle_get_extrato_subtransacoes_programa_governo_result(json)
    [] cls = "AccountabilityV3ControleAPI" /\ op = "get_extrato_fundos_investimento" ->
       Controle_get_extrato_fundos_investimento_result(json)
    [] cls = "AccountabilityV3ControleAPI" /\ op = "get_extrato_poupanca" ->
       Controle_get_extrato_poupanca_result(json)
    [] cls = "AccountabilityV3ControleAPI" /\ op = "get_contas_correntes" ->
       Controle_get_contas_correntes_result(json)

\* the bodies tried as the answer to each method: a body with every key the
\* method reads, and bodies that lack a part of it
ResponseBodies(cls, op) ==
  CASE cls = "AccountabilityV3RepasseAPI" /\ op = "get_agencias_proximas" ->
       LET top == Object(<<"quantidadeAgencia">>, "")
           elements == Elements(<<"codigo", "digito">>,
               <<>>)
           full == SetItem(top, "listaAgencia", elements)
           empty == SetItem(top, "listaAgencia", List(<<>>))
           bare == SetItem(Dict(<<>>), "listaAgencia", elements)
       IN {full,
           empty,
           bare}
    [] cls = "AccountabilityV3RepasseAPI" /\ op = "get_extrato_programa_governo" ->
       LET top == Object(<<"governmentProgramCode", "governmentProgramName",
               "governmentSubProgramCode", "governmentSubProgramName">>, "")
           elements == Elements(<<"id", "bookingDate">>,
               <<"expensesDocuments">>)
           full == SetItem(top, "transactions", elements)
           empty == SetItem(top, "transactions", List(<<>>))
           bare == SetItem(Dict(<<>>), "transactions", elements)
       IN {full,
           empty,
           bare}
    [] cls = "AccountabilityV3RepasseAPI" /\ op = "get_documento_despesas_programa_governo" ->
       LET top == Object(<<"accessKey", "receiptTypeCode", "typeCode", "serialCode",
               "number", "issueDate", "movementDate", "itemDeliveryDate",
               "value", "operationTypeName", "operation", "paymentMethod",
               "digitalSignatureCode", "pronafAbilityRegistration",
               "timestamp", "userId", "discountValue", "totalDiscountValue",
               "realeaseInstrumentCode", "realeaseInstrumentName",
               "realeaseInstrumentDate", "additionalInformation">>, "")
           elements == Elements(<<"description", "quantity">>,
               <<>>)
           full == SetItem(top, "items", elements)
           empty == SetItem(top, "items", List(<<>>))
           bare == SetItem(Dict(<<>>), "items", elements)
           document == SetItem(Dict(<<>>), "expenseDocument", full)
       IN {SetItem(SetItem(document, "issuer", Object(<<"corporateTaxPayerRegistry", "individualTaxPayerRegistry">>, "/issuer")),
             "recipient", Object(<<"corporateTaxPayerRegistry", "individualTaxPayerRegistry">>, "/recipient")),
           SetItem(SetItem(document, "issuer", ListObject(<<"corporateTaxPayerRegistry", "individualTaxPayerRegistry">>, "/issuer")),
             "recipient", ListObject(<<"corporateTaxPayerRegistry", "individualTaxPayerRegistry">>, "/recipient")),
           Dict(<<>>)}
    [] cls = "AccountabilityV3RepasseAPI" /\ op = "get_documento_despesas_prestacao_contas" ->
       LET top == Object(<<"accessKey", "receiptTypeCode", "typeCode", "serialCode",
               "number", "issueDate", "movementDate", "itemDeliveryDate",
               "value", "operationTypeName", "operation", "paymentMethod",
               "digitalSignatureCode", "pronafAbilityRegistration",
               "timestamp", "userId", "discountValue", "totalDiscountValue",
               "realeaseInstrumentCode", "realeaseInstrumentName",
               "realeaseInstrumentDate", "additionalInformation">>, "")
           elements == Elements(<<"description", "quantity">>,
               <<>>)
           full == SetItem(top, "items", elements)
           empty == SetItem(top, "items", List(<<>>))
           bare == SetItem(Dict(<<>>), "items", elements)
           document == SetItem(Dict(<<>>), "expenseDocument", full)
       IN {SetItem(SetItem(document, "issuer", Object(<<"corporateTaxPayerRegistry", "individualTaxPayerRegistry">>, "/issuer")),
             "recipient", Object(<<"corporateTaxPayerRegistry", "individualTaxPayerRegistry">>, "/recipient")),
           SetItem(SetItem(document, "issuer", ListObject(<<"corporateTaxPayerRegistry", "individualTaxPayerRegistry">>, "/issuer")),
             "recipient", ListObject(<<"corporateTaxPayerRegistry", "individualTaxPayerRegistry">>, "/recipient")),
           Dict(<<>>)}
    [] cls = "AccountabilityV3RepasseAPI" /\ op = "get_extrato_subtransacoes_programa_governo" ->
       LET top == Object(<<"governmentProgramCode", "governmentProgramName",
               "governmentSubProgramCode", "governmentSubProgramName">>, "")
           elements == Elements(<<"id", "codeSubtransactionState">>,
               <<"expensesCategory", "expensesDocuments">>)
           full == SetItem(top, "subtransactions", elements)
           empty == SetItem(top, "subtransactions", List(<<>>))
           bare == SetItem(Dict(<<>>), "subtransactions", elements)
       IN {full,
           empty,
           bare}
    [] cls = "AccountabilityV3RepasseAPI" /\ op = "get_extrato_fundos_investimento" ->
       LET top == Object(<<"numeroAgenciaRecebedora",
               "digitoVerificadorContaRecebedora",
               "numeroContaCorrenteRecebedora",
               "numeroDigitoVerificadorContaCorrenteRecebedora",
               "nomeClienteRecebedor", "nomeFundoInvestimento",
               "CNPJFundoInvestimento", "valorCota", "dataAfericaoValorCota",
               "ultimaCotacaoCota", "dataUltimaCotacaoCota",
               "sinalRentabilidadeMes", "valorRentabilidadeMes",
               "sinalRentabilidadeAno", "valorRentabilidadeAno",
               "sinalRentabilidadeResgateTotal",
               "valorRentabilidadeResgateTotal", "valorDisponivelResgate",
               "valorCarenciaResgate", "valorIRPrevisto",
               "percentualIRPrevisto", "valorIRComplementarPrevisto",
               "valorIOFPrevisto", "valorTaxaSaida", "valorBonusDesempenho",
               "valorBloqueado", "valorAplicado", "valorResgate",
               "valorSaldoAnterior", "quantidadeCotaAnterior",
               "dataSaldoAnterior", "valorTotalAplicadoPeriodo",
               "valorTotalResgatadoPeriodo", "sinalRendimentoBrutoPeriodo",
               "valorRendimentoBrutoPeriodo", "valorTotalIRPeriodo",
               "valorTotalIOFPeriodo", "valorTotalTaxaSaidaPeriodo",
               "valorTotalBonusDesempenhoPeriodo", "sinalRendimentoLiquido",
               "valorRendimentoLiquido", "valorSaldoMesAnterior",
               "quantidadeCotaMesAnterior", "dataSaldoMesAnterior",
               "numeroLancamento">>, "")
           elements == Elements(<<"dataLancamento", "valorCota">>,
               <<>>)
           full == SetItem(top, "listaLancamentosExtrato", elements)
           empty == SetItem(top, "listaLancamentosExtrato", List(<<>>))
           bare == SetItem(Dict(<<>>), "listaLancamentosExtrato", elements)
           program == Object(<<"codigoProgramaGoverno", "nomeProgramaGoverno",
               "codigoSubProgramaGoverno", "nomeSubProgramaGoverno">>, "")
       IN {SetItem(program, "extrato", full),
           SetItem(program, "extrato", empty),
           SetItem(program, "extrato", Pop(full, "valorCota"))}
    [] cls = "AccountabilityV3RepasseAPI" /\ op = "get_extrato_poupanca" ->
       LET top == Object(<<"codigoProgramaGoverno", "nomeProgramaGoverno",
               "codigoSubProgramaGoverno", "nomeSubProgramaGoverno",
               "nomeCliente", "identificadorCliente", "saldoAnterior",
               "saldoAtual", "saldoBloqueado", "saldoDisponivel">>, "")
           elements == Elements(<<"dataLancamento", "dataMovimento">>,
               <<>>)
           full == SetItem(top, "listaLancamentos", elements)
           empty == SetItem(top, "listaLancamentos", List(<<>>))
           bare == SetItem(Dict(<<>>), "listaLancamentos", elements)
       IN {full,
           empty,
           bare}
    [] cls = "AccountabilityV3RepasseAPI" /\ op = "get_lancamentos_atualizados" ->
       LET top == Object(<<"totalPaginas">>, "")
           elements == Elements(<<"agencia", "contaCorrente">>,
               <<>>)
           full == SetItem(top, "listaLancamentos", elements)
           empty == SetItem(top, "listaLancamentos", List(<<>>))
           bare == SetItem(Dict(<<>>), "listaLancamentos", elements)
       IN {full,
           empty,
           bare}
    [] cls = "AccountabilityV3RepasseAPI" /\ op = "get_sublancamentos_atualizados" ->
       LET top == Object(<<"totalPaginas">>, "")
           elements == Elements(<<"agencia", "contaCorrente">>,
               <<>>)
           full == SetItem(top, "listaSublancamentos", elements)
           empty == SetItem(top, "listaSublancamentos", List(<<>>))
           bare == SetItem(Dict(<<>>), "listaSublancamentos", elements)
       IN {full,
           empty,
           bare}
    [] cls = "AccountabilityV3RepasseAPI" /\ op = "get_categorias_programa_governo" ->
       LET top == Object(<<>>, "")
           elements == Elements(<<"codigo", "nome">>,
               <<>>)
           full == SetItem(top, "categorias", elements)
           empty == SetItem(top, "categorias", List(<<>>))
       IN {full,
           empty,
           Dict(<<>>)}
    [] cls = "AccountabilityV3RepasseAPI" /\ op = "get_saldo_aplicacoes_financeiras" ->
       LET top == Object(<<"dataSaldo", "valorDisponibilidade">>, "")
           elements == Elements(<<"codigo", "valor">>,
               <<>>)
           full == SetItem(top, "operacoes", elements)
           empty == SetItem(top, "operacoes", List(<<>>))
           bare == SetItem(Dict(<<>>), "operacoes", elements)
       IN {full,
           empty,
           bare}
    [] cls = "AccountabilityV3RepasseAPI" /\ op = "get_saldo_conta_corrente" ->
       {Object(<<"dataSaldo", "valorDisponibilidade">>, ""),
        ListObject(<<"dataSaldo", "valorDisponibilidade">>, ""),
        Dict(<<>>)}
    [] cls = "AccountabilityV3RepasseAPI" /\ op = "post_categoria_despesa_lancamento_credito" ->
       {Object(<<"timestampInclusaoCategoriaDespesa">>, ""),
        ListObject(<<"timestampInclusaoCategoriaDespesa">>, ""),
        Dict(<<>>)}
    [] cls = "AccountabilityV3RepasseAPI" /\ op = "post_identificacao_lancamento_credito" ->
       {Object(<<"numeroSequencialLancamentoContaCorrente",
             "numeroSequencialIdentificacaoLancamento">>, ""),
        ListObject(<<"numeroSequencialLancamentoContaCorrente",
             "numeroSequencialIdentificacaoLancamento">>, ""),
        Dict(<<>>)}
    [] cls = "AccountabilityV3RepasseAPI" /\ op = "delete_identificacao_lancamento_credito" ->
       {Object(<<"timestampExclusaoIdentificacaoLancamento">>, ""),
        ListObject(<<"timestampExclusaoIdentificacaoLancamento">>, ""),
        Dict(<<>>)}
    [] cls = "AccountabilityV3RepasseAPI" /\ op = "get_identificacao_lancamento_debito" ->
       LET top == Object(<<"numeroPaginaTotal", "quantidadeIdentificacaoLancamento">>, "")
           elements == Elements(<<"numeroSequencialLancamentoContaCorrente",
               "numeroSequencialIdentificacaoLancamento">>,
               <<>>)
           full == SetItem(top, "listaLancamento", elements)
           empty == SetItem(top, "listaLancamento", List(<<>>))
           bare == SetItem(Dict(<<>>), "listaLancamento", elements)
       IN {full,
           empty,
           bare}
    [] cls = "AccountabilityV3ControleAPI" /\ op = "get_agencias_proximas" ->
       LET top == Object(<<"quantidadeAgencia">>, "")
           elements == Elements(<<"codigo", "digito">>,
               <<>>)
           full == SetItem(top, "listaAgencia", elements)
           empty == SetItem(top, "listaAgencia", List(<<>>))
           bare == SetItem(Dict(<<>>), "listaAgencia", elements)
       IN {full,
           empty,
           bare}
    [] cls = "AccountabilityV3ControleAPI" /\ op = "get_extrato_programa_governo" ->
       LET top == Object(<<"governmentProgramCode", "governmentProgramName",
               "governmentSubProgramCode", "governmentSubProgramName">>, "")
           elements == Elements(<<"id", "bookingDate">>,
               <<"expensesDocuments">>)
           full == SetItem(top, "transactions", elements)
           empty == SetItem(top, "transactions", List(<<>>))
           bare == SetItem(Dict(<<>>), "transactions", elements)
       IN {full,
           empty,
           bare}
    [] cls = "AccountabilityV3ControleAPI" /\ op = "get_documento_despesas_programa_governo" ->
       LET top == Object(<<"accessKey", "receiptTypeCode", "typeCode", "serialCode",
               "number", "issueDate", "movementDate", "itemDeliveryDate",
               "value", "operationTypeName", "operation", "paymentMethod",
               "digitalSignatureCode", "pronafAbilityRegistration",
               "timestamp", "userId", "discountValue", "totalDiscountValue",
               "realeaseInstrumentCode", "realeaseInstrumentName",
               "realeaseInstrumentDate", "additionalInformation">>, "")
           elements == Elements(<<"description", "quantity">>,
               <<>>)
           full == SetItem(top, "items", elements)
           empty == SetItem(top, "items", List(<<>>))
           bare == SetItem(Dict(<<>>), "items", elements)
           document == SetItem(Dict(<<>>), "expenseDocument", full)
       IN {SetItem(SetItem(document, "issuer", Object(<<"corporateTaxPayerRegistry", "individualTaxPayerRegistry">>, "/issuer")),
             "recipient", Object(<<"corporateTaxPayerRegistry", "individualTaxPayerRegistry">>, "/recipient")),
           SetItem(SetItem(document, "issuer", ListObject(<<"corporateTaxPayerRegistry", "individualTaxPayerRegistry">>, "/issuer")),
             "recipient", ListObject(<<"corporateTaxPayerRegistry", "individualTaxPayerRegistry">>, "/recipient")),
           Dict(<<>>)}
    [] cls = "AccountabilityV3ControleAPI" /\ op = "get_documento_despesas_prestacao_contas" ->
       LET top == Object(<<"accessKey", "receiptTypeCode", "typeCode", "serialCode",
               "number", "issueDate", "movementDate", "itemDeliveryDate",
               "value", "operationTypeName", "operation", "paymentMethod",
               "digitalSignatureCode", "pronafAbilityRegistration",
               "timestamp", "userId", "discountValue", "totalDiscountValue",
               "realeaseInstrumentCode", "realeaseInstrumentName",
               "realeaseInstrumentDate", "additionalInformation">>, "")
           elements == Elements(<<"description", "quantity">>,
               <<>>)
           full == SetItem(top, "items", elements)
           empty == SetItem(top, "items", List(<<>>))
           bare == SetItem(Dict(<<>>), "items", elements)
           document == SetItem(Dict(<<>>), "expenseDocument", full)
       IN {SetItem(SetItem(document, "issuer", Object(<<"corporateTaxPayerRegistry", "individualTaxPayerRegistry">>, "/issuer")),
             "recipient", Object(<<"corporateTaxPayerRegistry", "individualTaxPayerRegistry">>, "/recipient")),
           SetItem(SetItem(document, "issuer", ListObject(<<"corporateTaxPayerRegistry", "individualTaxPayerRegistry">>, "/issuer")),
             "recipient", ListObject(<<"corporateTaxPayerRegistry", "individualTaxPayerRegistry">>, "/recipient")),
           Dict(<<>>)}
    [] cls = "AccountabilityV3ControleAPI" /\ op = "get_extrato_subtransacoes_programa_governo" ->
       LET top == Object(<<"governmentProgramCode", "governmentProgramName",
               "governmentSubProgramCode", "governmentSubProgramName">>, "")
           elements == Elements(<<"id", "codeSubtransactionState">>,
               <<"expensesCategory", "expensesDocuments">>)
           full == SetItem(top, "subtransactions", elements)
           empty == SetItem(top, "subtransactions", List(<<>>))
           bare == SetItem(Dict(<<>>), "subtransactions", elements)
       IN {full,
           empty,
           bare}
    [] cls = "AccountabilityV3ControleAPI" /\ op = "get_extrato_fundos_investimento" ->
       LET top == Object(<<"numeroAgenciaRecebedora",
               "digitoVerificadorContaRecebedora",
               "numeroContaCorrenteRecebedora",
               "numeroDigitoVerificadorContaCorrenteRecebedora",
               "nomeClienteRecebedor", "nomeFundoInvestimento",
               "CNPJFundoInvestimento", "valorCota", "dataAfericaoValorCota",
               "ultimaCotacaoCota", "dataUltimaCotacaoCota",
               "sinalRentabilidadeMes", "valorRentabilidadeMes",
               "sinalRentabilidadeAno", "valorRentabilidadeAno",
               "sinalRentabilidadeResgateTotal",
               "valorRentabilidadeResgateTotal", "valorDisponivelResgate",
               "valorCarenciaResgate", "valorIRPrevisto",
               "percentualIRPrevisto", "valorIRComplementarPrevisto",
               "valorIOFPrevisto", "valorTaxaSaida", "valorBonusDesempenho",
               "valorBloqueado", "valorAplicado", "valorResgate",
               "valorSaldoAnterior", "quantidadeCotaAnterior",
               "dataSaldoAnterior", "valorTotalAplicadoPeriodo",
               "valorTotalResgatadoPeriodo", "sinalRendimentoBrutoPeriodo",
               "valorRendimentoBrutoPeriodo", "valorTotalIRPeriodo",
               "valorTotalIOFPeriodo", "valorTotalTaxaSaidaPeriodo",
               "valorTotalBonusDesempenhoPeriodo", "sinalRendimentoLiquido",
               "valorRendimentoLiquido", "valorSaldoMesAnterior",
               "quantidadeCotaMesAnterior", "dataSaldoMesAnterior",
               "numeroLancamento">>, "")
           elements == Elements(<<"dataLancamento", "valorCota">>,
               <<>>)
           full == SetItem(top, "listaLancamentosExtrato", elements)
           empty == SetItem(top, "listaLancamentosExtrato", List(<<>>))
           bare == SetItem(Dict(<<>>), "listaLancamentosExtrato", elements)
           program == Object(<<"codigoProgramaGoverno", "nomeProgramaGoverno",
               "codigoSubProgramaGoverno", "nomeSubProgramaGoverno">>, "")
       IN {SetItem(program, "extrato", full),
           SetItem(program, "extrato", empty),
           SetItem(program, "extrato", Pop(full, "valorCota"))}
    [] cls = "AccountabilityV3ControleAPI" /\ op = "get_extrato_poupanca" ->
       LET top == Object(<<"codigoProgramaGoverno", "nomeProgramaGoverno",
               "codigoSubProgramaGoverno", "nomeSubProgramaGoverno",
               "nomeCliente", "identificadorCliente", "saldoAnterior",
               "saldoAtual", "saldoBloqueado", "saldoDisponivel">>, "")
           elements == Elements(<<"dataLancamento", "dataMovimento">>,
               <<>>)
           full == SetItem(top, "listaLancamentos", elements)
           empty == SetItem(top, "listaLancamentos", List(<<>>))
           bare == SetItem(Dict(<<>>), "listaLancamentos", elements)
       IN {full,
           empty,
           bare}
    [] cls = "AccountabilityV3ControleAPI" /\ op = "get_contas_correntes" ->
       LET top == Object(<<"numeroRegistroConsultar", "quantidadeContaCorrente">>, "")
           elements == Elements(<<"codigoProgramaGoverno", "nomeProgramaGoverno">>,
               <<>>)
           full == SetItem(top, "listaContaCorrente", elements)
           empty == SetItem(top, "listaContaCorrente", List(<<>>))
           bare == SetItem(Dict(<<>>), "listaContaCorrente", elements)
       IN {full,
           empty,
           bare}

----------------------------------------------------------------------------
(* accountability.py: the token check *)

\* the locals of _check_and_update_access_token up to its if (lines 97-108),
\* with >= where the code has >
TokenCheck_expires_at_interval(s, now) ==
  LET is_first_access_token_request == s._last_access_token_request_timestamp = NoTimestamp
      diff_between_requests ==
        IF is_first_access_token_request THEN 0
        ELSE now - s._last_access_token_request_timestamp[1]
  IN [now |-> now,
      is_first_access_token_request |-> is_first_access_token_request,
      diff_between_requests |-> diff_between_requests,
      is_access_token_expired |->
        diff_between_requests >= _time_between_access_token_requests]

\* the locals of _check_and_update_access_token up to its if (lines 97-108)
TokenCheck(s, now) ==
  LET is_first_access_token_request == s._last_access_token_request_timestamp = NoTimestamp
      diff_between_requests ==
        IF is_first_access_token_request THEN 0
        ELSE now - s._last_access_token_request_timestamp[1]
  IN [now |-> now,
      is_first_access_token_request |-> is_first_access_token_request,
      diff_between_requests |-> diff_between_requests,
      is_access_token_expired |->
        diff_between_requests > _time_between_access_token_requests]

NoLocals == [now |-> 0, is_first_access_token_request |-> FALSE,
             diff_between_requests |-> 0, is_access_token_expired |-> FALSE]

\* the client-credentials grant of lines 109-120
TokenRequest(s) ==
  [method |-> "POST",
   url |-> s._oauth_domain \o "/oauth/token",
   headers |-> ("Content-Type" :> "application/x-www-form-urlencoded")
               @@ ("Authorization" :> ("Basic " \o s._base64_credentials)),
   data |-> ("grant_type" :> "client_credentials")
            @@ ("scope" :> "accountability.statements")]

\* raise Exception(...) of line 123, which the specification calls AuthenticationError
AuthenticationError ==
  [kind |-> "raised", type |-> "Exception",
   message |-> "Não foi possível adquirir as novas credenciais de acesso."]

\* raise Exception(...) after a data-plane status check, which the specification
\* calls RequestError
RequestError(req) == [kind |-> "raised", type |-> "Exception", message |-> req.message]

Pending == [kind |-> "pending"]
NoRequest == [method |-> "none"]
NoResponse == [plane |-> "none", status_code |-> 0]
\* the body of a response on which res.json() was not called
NotParsed == [none |-> TRUE]
NoTraffic == [token |-> 0, data |-> 0, json |-> 0, shaped |-> 0]

----------------------------------------------------------------------------
(* Bounds and inputs *)

\* the clock stops advancing here
MaxClock == 602
\* how far the clock advances in one step
ClockSteps == {300, 301}

Threads == {"main", "worker"}
MainThread == "main"

\* the status codes the servers answer with
Statuses == {200, 201, 401}
\* the access tokens the identity provider grants
Tokens == {"tokenA", "tokenB"}

----------------------------------------------------------------------------
(* The steps of one operation call *)

\* self._get_access_token() at the top of every operation, up to the token
\* request: the check of lines 97-108 and, when due, the POST of lines 109-120
Call(t, op, a) ==
  /\ client.class \in Classes
  /\ pc[t] = "idle"
  /\ op \in Methods(client.class)
  /\ a \in Args(client.class, op)
  /\ LET l == TokenCheck(client, clock)
         due == l.is_first_access_token_request \/ l.is_access_token_expired
     IN /\ locals' = [locals EXCEPT ![t] = l]
        /\ pc' = [pc EXCEPT ![t] = IF due THEN "token_request" ELSE "checked"]
        /\ traffic' = [traffic EXCEPT ![t] =
                         [NoTraffic EXCEPT !.token = IF due THEN 1 ELSE 0]]
  /\ call' = [call EXCEPT ![t] =
                [op |-> op, args |-> a,
                 after_rejection |-> outcome[t] = AuthenticationError,
                 after_data_rejection |->
                   /\ request[t] # NoRequest
                   /\ outcome[t] = RequestError(request[t])]]
  /\ op_token' = [op_token EXCEPT ![t] = Unset]
  /\ request' = [request EXCEPT ![t] = NoRequest]
  /\ res' = [res EXCEPT ![t] = NoResponse]
  /\ outcome' = [outcome EXCEPT ![t] = Pending]
  /\ UNCHANGED <<client, environ, construction, clock, oauth, shaping>>

\* lines 122-129 with the two assignments moved above the status check
TokenResponse_stores_before_check(t, status, token) ==
  /\ pc[t] = "token_request"
  /\ res' = [res EXCEPT ![t] = [plane |-> "token", status_code |-> status]]
  /\ client' = [client EXCEPT !._access_token = token,
                          !._last_access_token_request_timestamp = Timestamp(clock)]
  /\ IF status # 200
       THEN /\ outcome' = [outcome EXCEPT ![t] = AuthenticationError]
            /\ pc' = [pc EXCEPT ![t] = "idle"]
            /\ UNCHANGED oauth
       ELSE /\ pc' = [pc EXCEPT ![t] = "checked"]
            /\ oauth' = [token |-> token, at |-> Timestamp(clock)]
            /\ UNCHANGED outcome
  /\ UNCHANGED <<environ, construction, clock, call, locals, op_token,
                 request, traffic, shaping>>

\* lines 122-129 answering a rejection with a second token request
TokenResponse_retries(t, status, token) ==
  /\ pc[t] = "token_request"
  /\ res' = [res EXCEPT ![t] = [plane |-> "token", status_code |-> status]]
  /\ IF status # 200
       THEN /\ traffic' = [traffic EXCEPT ![t].token = @ + 1]
            /\ UNCHANGED <<client, oauth, pc>>
       ELSE /\ client' = [client EXCEPT
                          !._access_token = token,
                          !._last_access_token_request_timestamp = Timestamp(clock)]
            /\ pc' = [pc EXCEPT ![t] = "checked"]
            /\ oauth' = [token |-> token, at |-> Timestamp(clock)]
            /\ UNCHANGED traffic
  /\ UNCHANGED <<environ, construction, clock, call, locals, op_token,
                 request, outcome, shaping>>

\* lines 122-129 going on to the data request after a rejection
TokenResponse_swallows_rejection(t, status, token) ==
  /\ pc[t] = "token_request"
  /\ res' = [res EXCEPT ![t] = [plane |-> "token", status_code |-> status]]
  /\ pc' = [pc EXCEPT ![t] = "checked"]
  /\ IF status # 200
       THEN UNCHANGED <<client, oauth>>
       ELSE /\ client' = [client EXCEPT
                          !._access_token = token,
                          !._last_access_token_request_timestamp = Timestamp(clock)]
            /\ oauth' = [token |-> token, at |-> Timestamp(clock)]
  /\ UNCHANGED <<environ, construction, clock, call, locals, op_token,
                 request, outcome, traffic, shaping>>

\* lines 122-129 storing the time of a rejected token request
TokenResponse_stamps_rejection(t, status, token) ==
  /\ pc[t] = "token_request"
  /\ res' = [res EXCEPT ![t] = [plane |-> "token", status_code |-> status]]
  /\ IF status # 200
       THEN /\ outcome' = [outcome EXCEPT ![t] = AuthenticationError]
            /\ pc' = [pc EXCEPT ![t] = "idle"]
            /\ client' = [client EXCEPT
                          !._last_access_token_request_timestamp = Timestamp(clock)]
            /\ UNCHANGED oauth
       ELSE /\ client' = [client EXCEPT
                          !._access_token = token,
                          !._last_access_token_request_timestamp = Timestamp(clock)]
            /\ pc' = [pc EXCEPT ![t] = "checked"]
            /\ oauth' = [token |-> token, at |-> Timestamp(clock)]
            /\ UNCHANGED outcome
  /\ UNCHANGED <<environ, construction, clock, call, locals, op_token,
                 request, traffic, shaping>>

\* lines 122-129 storing the time the token check read (line 97)
TokenResponse_stamps_check_time(t, status, token) ==
  /\ pc[t] = "token_request"
  /\ res' = [res EXCEPT ![t] = [plane |-> "token", status_code |-> status]]
  /\ IF status # 200
       THEN /\ outcome' = [outcome EXCEPT ![t] = AuthenticationError]
            /\ pc' = [pc EXCEPT ![t] = "idle"]
            /\ UNCHANGED <<client, oauth>>
       ELSE /\ client' = [client EXCEPT
                          !._access_token = token,
                          !._last_access_token_request_timestamp =
                            Timestamp(locals[t].now)]
            /\ pc' = [pc EXCEPT ![t] = "checked"]
            /\ oauth' = [token |-> token, at |-> Timestamp(clock)]
            /\ UNCHANGED outcome
  /\ UNCHANGED <<environ, construction, clock, call, locals, op_token,
                 request, traffic, shaping>>

\* lines 122-129 keeping the token another thread stored since the check
TokenResponse_first_writer_wins(t, status, token) ==
  /\ pc[t] = "token_request"
  /\ res' = [res EXCEPT ![t] = [plane |-> "token", status_code |-> status]]
  /\ IF status # 200
       THEN /\ outcome' = [outcome EXCEPT ![t] = AuthenticationError]
            /\ pc' = [pc EXCEPT ![t] = "idle"]
            /\ UNCHANGED <<client, oauth>>
       ELSE /\ client' =
                 IF \/ TokenCheck(client, locals[t].now).is_first_access_token_request
                    \/ TokenCheck(client, locals[t].now).is_access_token_expired
                   THEN [client EXCEPT
                           !._access_token = token,
                           !._last_access_token_request_timestamp = Timestamp(clock)]
                   ELSE client
            /\ pc' = [pc EXCEPT ![t] = "checked"]
            /\ oauth' = [token |-> token, at |-> Timestamp(clock)]
            /\ UNCHANGED outcome
  /\ UNCHANGED <<environ, construction, clock, call, locals, op_token,
                 request, traffic, shaping>>

\* the token endpoint answers: the status check of lines 122-125, then the
\* body {"access_token": token} stored with the time read after the response
\* (lines 127-129)
TokenResponse(t, status, token) ==
  /\ pc[t] = "token_request"
  /\ res' = [res EXCEPT ![t] = [plane |-> "token", status_code |-> status]]
  /\ IF status # 200
       THEN /\ outcome' = [outcome EXCEPT ![t] = AuthenticationError]
            /\ pc' = [pc EXCEPT ![t] = "idle"]
            /\ UNCHANGED <<client, oauth>>
       ELSE /\ client' = [client EXCEPT
                          !._access_token = token,
                          !._last_access_token_request_timestamp = Timestamp(clock)]
            /\ pc' = [pc EXCEPT ![t] = "checked"]
            /\ oauth' = [token |-> token, at |-> Timestamp(clock)]
            /\ UNCHANGED outcome
  /\ UNCHANGED <<environ, construction, clock, call, locals, op_token,
                 request, traffic, shaping>>

\* return self._access_token (line 133), then the operation up to its
\* requests.request call
SendRequest(t) ==
  /\ pc[t] = "checked"
  /\ op_token' = [op_token EXCEPT ![t] = client._access_token]
  /\ request' = [request EXCEPT ![t] =
                   Invoke(client.class, call[t].op, client, client._access_token, call[t].args)]
  /\ traffic' = [traffic EXCEPT ![t].data = @ + 1]
  /\ pc' = [pc EXCEPT ![t] = "data_request"]
  /\ UNCHANGED <<client, environ, construction, clock, call, locals, res, outcome, oauth, shaping>>

\* the status check of an operation with every status accepted
StatusRejected_accepts_all(req, status) == FALSE

\* the status check of an operation: res.status_code != 200, or
\* res.status_code not in [200, 201]
StatusRejected(req, status) == status \notin req.accepted

\* the answer of the API with a rejected status forgetting the acquisition
DataResponse_forgets_token_on_rejection(t, status, body) ==
  /\ pc[t] = "data_request"
  /\ IF StatusRejected(request[t], status)
       THEN /\ res' = [res EXCEPT ![t] = [plane |-> "data", status_code |-> status,
                                          json |-> NotParsed]]
            /\ outcome' = [outcome EXCEPT ![t] = RequestError(request[t])]
            /\ client' = [client EXCEPT
                          !._last_access_token_request_timestamp = NoTimestamp]
            /\ UNCHANGED traffic
       ELSE \E r \in {Result(client.class, call[t].op, body)} :
              /\ res' = [res EXCEPT ![t] = [plane |-> "data", status_code |-> status,
                                            json |-> body]]
              /\ outcome' = [outcome EXCEPT ![t] =
                               IF IsRaised(r)
                                 THEN [kind |-> "raised", type |-> r.raised, error |-> r]
                                 ELSE [kind |-> "returned", value |-> r]]
              /\ traffic' = [traffic EXCEPT ![t].json = @ + 1, ![t].shaped = @ + 1]
              /\ UNCHANGED client
  /\ pc' = [pc EXCEPT ![t] = "idle"]
  /\ UNCHANGED <<environ, construction, clock, call, locals, op_token,
                 request, oauth, shaping>>

\* the answer of the API with an exception of the shaping answered by an
\* empty table
DataResponse_returns_empty_on_error(t, status, body) ==
  /\ pc[t] = "data_request"
  /\ IF StatusRejected(request[t], status)
       THEN /\ res' = [res EXCEPT ![t] = [plane |-> "data", status_code |-> status,
                                          json |-> NotParsed]]
            /\ outcome' = [outcome EXCEPT ![t] = RequestError(request[t])]
            /\ UNCHANGED traffic
       ELSE \E r \in {Result(client.class, call[t].op, body)} :
              /\ res' = [res EXCEPT ![t] = [plane |-> "data", status_code |-> status,
                                            json |-> body]]
              /\ outcome' = [outcome EXCEPT ![t] =
                               [kind |-> "returned",
                                value |-> IF IsRaised(r) THEN EmptyFrame ELSE r]]
              /\ traffic' = [traffic EXCEPT ![t].json = @ + 1, ![t].shaped = @ + 1]
  /\ pc' = [pc EXCEPT ![t] = "idle"]
  /\ UNCHANGED <<client, environ, construction, clock, call, locals, op_token,
                 request, oauth, shaping>>

\* the API answers with a status and a body: the status check of the
\* operation, then res.json() and the shaping of the body, up to the return
\* or the exception that leaves the operation
DataResponse(t, status, body) ==
  /\ pc[t] = "data_request"
  /\ IF StatusRejected(request[t], status)
       THEN /\ res' = [res EXCEPT ![t] = [plane |-> "data", status_code |-> status,
                                          json |-> NotParsed]]
            /\ outcome' = [outcome EXCEPT ![t] = RequestError(request[t])]
            /\ UNCHANGED traffic
       ELSE \E r \in {Result(client.class, call[t].op, body)} :
              /\ res' = [res EXCEPT ![t] = [plane |-> "data", status_code |-> status,
                                            json |-> body]]
              /\ outcome' = [outcome EXCEPT ![t] =
                               IF IsRaised(r)
                                 THEN [kind |-> "raised", type |-> r.raised, error |-> r]
                                 ELSE [kind |-> "returned", value |-> r]]
              /\ traffic' = [traffic EXCEPT ![t].json = @ + 1, ![t].shaped = @ + 1]
  /\ pc' = [pc EXCEPT ![t] = "idle"]
  /\ UNCHANGED <<client, environ, construction, clock, call, locals, op_token,
                 request, oauth, shaping>>

\* time passes
Tick(d) ==
  /\ clock + d <= MaxClock
  /\ clock' = clock + d
  /\ UNCHANGED <<client, environ, construction, pc, call, locals, op_token,
                 request, res, outcome, traffic, oauth, shaping>>

----------------------------------------------------------------------------
(* Sequential use of one constructed client *)

\* no call of _handle_results is followed on its own
NotShaping == [pc |-> "none"]

NoCall == [op |-> "none", args |-> <<>>, after_rejection |-> FALSE,
           after_data_rejection |-> FALSE]

Idle ==
  /\ clock = 0
  /\ pc = [t \in Threads |-> "idle"]
  /\ call = [t \in Threads |-> NoCall]
  /\ locals = [t \in Threads |-> NoLocals]
  /\ op_token = [t \in Threads |-> Unset]
  /\ request = [t \in Threads |-> NoRequest]
  /\ res = [t \in Threads |-> NoResponse]
  /\ outcome = [t \in Threads |-> Pending]
  /\ traffic = [t \in Threads |-> NoTraffic]
  /\ oauth = [token |-> Unset, at |-> NoTimestamp]
  /\ shaping = NotShaping

\* a client of either class, built with explicit credentials in an empty
\* environment and the default ambiente
Init ==
  /\ environ = <<>>
  /\ \E cls \in Classes :
       /\ construction = [class |-> cls, ambiente |-> "HOMOLOGACAO",
                          args |-> [p \in CredentialNames |-> "arg"],
                          raised |-> NoError]
       /\ client = __init__(cls, "HOMOLOGACAO", "arg:app_key", "arg:client_id",
                          "arg:client_secret", <<>>).object
  /\ Idle

Next ==
  \/ \E op \in Methods(client.class) : \E a \in Args(client.class, op) : Call(MainThread, op, a)
  \/ \E t \in Threads : \E status \in Statuses : \E token \in Tokens :
       TokenResponse(t, status, token)
  \/ \E t \in Threads : SendRequest(t)
  \/ \E t \in Threads : \E status \in Statuses :
       /\ pc[t] = "data_request"
       /\ \E body \in ResponseBodies(client.class, call[t].op) :
            DataResponse(t, status, body)
  \/ \E d \in ClockSteps : Tick(d)

Spec == Init /\ [][Next]_vars

----------------------------------------------------------------------------
(* Two threads calling operations of one client, with no lock between them *)

\* the operations the two threads call, one of each class: every operation
\* starts with the same self._get_access_token()
RaceMethods == {"get_categorias_programa_governo", "get_contas_correntes"}

NextRace ==
  \/ \E t \in Threads : \E op \in RaceMethods \cap Methods(client.class) :
       \E a \in Args(client.class, op) : Call(t, op, a)
  \/ \E t \in Threads : \E status \in Statuses : \E token \in Tokens :
       TokenResponse(t, status, token)
  \/ \E t \in Threads : SendRequest(t)
  \/ \E t \in Threads : \E status \in Statuses :
       /\ pc[t] = "data_request"
       /\ \E body \in ResponseBodies(client.class, call[t].op) :
            DataResponse(t, status, body)
  \/ \E d \in ClockSteps : Tick(d)

SpecRace == Init /\ [][NextRace]_vars

----------------------------------------------------------------------------
(* Construction under every environment and every choice of arguments *)

NotConstructed == [class |-> "none"]

InitNew ==
  /\ environ \in Environments
  /\ construction = NotConstructed
  /\ client = NoObject
  /\ Idle

\* cls(ambiente, app_key=..., client_id=..., client_secret=...)
New(cls, ambiente, args) ==
  /\ construction = NotConstructed
  /\ LET r == __init__(cls, ambiente, ArgValue(args, "app_key"),
                       ArgValue(args, "client_id"), ArgValue(args, "client_secret"),
                       environ)
     IN /\ client' = r.object
        /\ construction' = [class |-> cls, ambiente |-> ambiente, args |-> args,
                            raised |-> r.raised]
  /\ UNCHANGED <<environ, clock, pc, call, locals, op_token, request, res,
                 outcome, traffic, oauth, shaping>>

NextNew == \E cls \in Classes : \E ambiente \in Ambiente : \E args \in Arguments :
             New(cls, ambiente, args)

SpecNew == InitNew /\ [][NextNew]_vars


----------------------------------------------------------------------------
(* common.py: _handle_results, statement by statement *)

\* at most this many elements in the main list of a response body
MaxItems == 2

\* a field that an element does not have
Absent == [absent |-> TRUE]

\* the values of field b of an element: a list of two, an empty list, a scalar
BCells == {List(<<Scalar("10"), Scalar("20")>>), List(<<>>), Scalar("99")}
\* the values of field c of an element: a list of three, or no such field
CCells == {List(<<Scalar("7"), Scalar("8"), Scalar("9")>>), Absent}

\* element i of a main list: {"a": i, "b": b, "c": c}
Element(i, b, c) ==
  Dict(<<[k |-> "a", v |-> Scalar(Digits[i + 1])], [k |-> "b", v |-> b]>>
       \o (IF c = Absent THEN <<>> ELSE <<[k |-> "c", v |-> c]>>))

\* the main lists: up to MaxItems elements
MainLists ==
  UNION {{[i \in 1..n |-> Element(i, cells[i][1], cells[i][2])] :
            cells \in [1..n -> BCells \X CCells]} : n \in 0..MaxItems}

\* the scalar fields beside the main list, the last with a field named as
\* field a of the elements
Siblings ==
  {<<>>,
   <<[k |-> "total", v |-> Scalar("5")]>>,
   <<[k |-> "total", v |-> Scalar("5")], [k |-> "page", v |-> Scalar("1")]>>,
   <<[k |-> "total", v |-> Scalar("5")], [k |-> "a", v |-> Scalar("42")]>>}

\* the response bodies shaped: an object with a main list and scalar siblings,
\* an object of scalars alone, and an object with the fields of one element
Bodies ==
  {Dict(<<[k |-> "items", v |-> List(items)]>> \o siblings) :
     items \in MainLists, siblings \in Siblings}
  \cup {Dict(siblings) : siblings \in Siblings}
  \cup {Element(1, b, c) : b \in BCells, c \in CCells}

\* the shape configurations: the keyword arguments of _handle_results
MainListKeys == {None, "items"}
InsertableKeys == {<<>>, <<"total">>, <<"total", "page">>, <<"total", "a">>}
ExplodeableKeys == {<<>>, <<"b">>, <<"b", "c">>}
RenameDicts ==
  {<<>>, ("a" :> "A") @@ ("b" :> "B") @@ ("total" :> "Total") @@ ("zz" :> "ZZ")}

\* df before its first assignment
NoFrame == [unbound |-> TRUE]

\* the statement that runs next, the loop of line 66 running once at most
Reached_one_explode(s, df, inserted, exploded) ==
  IF IsRaised(df) THEN "raised"
  ELSE IF inserted < Len(s.insertables) THEN "insert"
  ELSE IF exploded < Len(s.explodeables) /\ exploded < 1 THEN "explode"
  ELSE "rename"

\* the statement that runs next when df was just assigned: the loops of
\* lines 62 and 66 run once per key, the rename and the return always
Reached(s, df, inserted, exploded) ==
  IF IsRaised(df) THEN "raised"
  ELSE IF inserted < Len(s.insertables) THEN "insert"
  ELSE IF exploded < Len(s.explodeables) THEN "explode"
  ELSE "rename"

\* _handle_results(data, main_list, insertables, explodeables, rename_dict) is called
InitShape ==
  /\ environ = <<>>
  /\ construction = NotConstructed
  /\ client = NoObject
  /\ clock = 0
  /\ pc = [t \in Threads |-> "idle"]
  /\ call = [t \in Threads |-> NoCall]
  /\ locals = [t \in Threads |-> NoLocals]
  /\ op_token = [t \in Threads |-> Unset]
  /\ request = [t \in Threads |-> NoRequest]
  /\ res = [t \in Threads |-> NoResponse]
  /\ outcome = [t \in Threads |-> Pending]
  /\ traffic = [t \in Threads |-> NoTraffic]
  /\ oauth = [token |-> Unset, at |-> NoTimestamp]
  /\ \E data \in Bodies : \E main_list \in MainListKeys :
       \E insertables \in InsertableKeys : \E explodeables \in ExplodeableKeys :
         \E rename_dict \in RenameDicts :
           shaping = [pc |-> "called", data |-> data, main_list |-> main_list,
                      insertables |-> insertables, explodeables |-> explodeables,
                      rename_dict |-> rename_dict, df |-> NoFrame,
                      inserted |-> 0, exploded |-> 0]

\* lines 56-59: df = pd.DataFrame(data[main_list]), or pd.DataFrame(data)
HandleResultsDataFrame ==
  /\ shaping.pc = "called"
  /\ \E df \in {DataFrame(IF shaping.main_list # None
                            THEN Subscript(shaping.data, shaping.main_list)
                            ELSE shaping.data)} :
       shaping' = [shaping EXCEPT !.df = df, !.pc = Reached(shaping, df, 0, 0)]
  /\ UNCHANGED <<client, environ, construction, clock, pc, call, locals, op_token,
                 request, res, outcome, traffic, oauth>>

\* lines 62-63, one iteration: df[insertable] = data[insertable]
HandleResultsInsert ==
  /\ shaping.pc = "insert"
  /\ \E insertable \in {shaping.insertables[shaping.inserted + 1]} :
       \E df \in {Insert(shaping.df, insertable, Subscript(shaping.data, insertable))} :
         shaping' = [shaping EXCEPT
                       !.df = df,
                       !.inserted = @ + 1,
                       !.pc = Reached(shaping, df, shaping.inserted + 1, 0)]
  /\ UNCHANGED <<client, environ, construction, clock, pc, call, locals, op_token,
                 request, res, outcome, traffic, oauth>>

\* lines 66-67, one iteration: df = df.explode(explodeable, ignore_index=True)
HandleResultsExplode ==
  /\ shaping.pc = "explode"
  /\ \E explodeable \in {shaping.explodeables[shaping.exploded + 1]} :
       \E df \in {explode(shaping.df, explodeable)} :
         shaping' = [shaping EXCEPT
                       !.df = df,
                       !.exploded = @ + 1,
                       !.pc = Reached(shaping, df, shaping.inserted,
                                      shaping.exploded + 1)]
  /\ UNCHANGED <<client, environ, construction, clock, pc, call, locals, op_token,
                 request, res, outcome, traffic, oauth>>

\* lines 69-72: df = df.rename(rename_dict, axis=1); return df
HandleResultsRename ==
  /\ shaping.pc = "rename"
  /\ shaping' = [shaping EXCEPT !.df = rename(shaping.df, shaping.rename_dict),
                                !.pc = "returned"]
  /\ UNCHANGED <<client, environ, construction, clock, pc, call, locals, op_token,
                 request, res, outcome, traffic, oauth>>

NextShape ==
  \/ HandleResultsDataFrame
  \/ HandleResultsInsert
  \/ HandleResultsExplode
  \/ HandleResultsRename

SpecShape == InitShape /\ [][NextShape]_vars

\* what the call returned or raised is what _handle_results evaluates to
ShapedAsAWhole ==
  shaping.pc \in {"returned", "raised"} =>
    shaping.df = _handle_results(shaping.data, shaping.main_list, shaping.insertables,
                                 shaping.explodeables, shaping.rename_dict)
----------------------------------------------------------------------------
(* Properties of the token cache *)

\* thread t starts an operation call in this step
Calls(t) == pc[t] = "idle" /\ pc'[t] # "idle"
\* thread t receives the answer to its token request in this step
TokenAnswered(t) == pc[t] = "token_request" /\ res'[t] # res[t]

\* C1: a call made while no token was ever acquired issues exactly one token
\* request; a call made d seconds after the last successful acquisition issues
\* one if and only if d > 600 (none at exactly 600); no other step of the call
\* issues a token request.
C1_TokenRefreshGating ==
  [][\A t \in Threads :
       IF Calls(t)
         THEN traffic'[t].token =
                IF oauth.at = NoTimestamp THEN 1
                ELSE IF clock - oauth.at[1] > 600 THEN 1 ELSE 0
         ELSE traffic'[t].token = traffic[t].token]_vars

\* a call made exactly 600 seconds after the acquisition went on with the
\* stored token and no token request
C1_Witness ==
  \E t \in Threads :
    /\ pc[t] = "data_request"
    /\ traffic[t].token = 0
    /\ oauth.at # NoTimestamp
    /\ locals[t].now - oauth.at[1] = 600

\* C2: when the token endpoint answers with a status other than 200, the
\* stored access token and the stored timestamp are what they were before the
\* answer, absent included.
C2_RefreshFailureNonMutation ==
  [][\A t \in Threads :
       (TokenAnswered(t) /\ res'[t].status_code # 200) =>
         /\ client'._access_token = client._access_token
         /\ client'._last_access_token_request_timestamp =
              client._last_access_token_request_timestamp]_vars

\* the refresh of an expired token was rejected and the old token is still stored
C2_Witness ==
  \E t \in Threads :
    /\ outcome[t] = AuthenticationError
    /\ locals[t].is_access_token_expired
    /\ client._access_token \in Tokens
    /\ client._last_access_token_request_timestamp = oauth.at

\* C3: the call that follows a call ended by a rejected token request issues a
\* token request of its own, whether the rejected one was the first acquisition
\* or a refresh; no call issues more than one token request.
C3_RetryOnNextCall ==
  \A t \in Threads :
    /\ call[t].after_rejection => traffic[t].token = 1
    /\ traffic[t].token <= 1

\* the call after a rejected refresh of an expired token asked again
C3_Witness ==
  \E t \in Threads :
    /\ call[t].after_rejection
    /\ locals[t].is_access_token_expired
    /\ traffic[t].token = 1

\* C4: every data-plane request carries Authorization: Bearer <token> with the
\* token of the most recent successful token request; a call that issued no
\* token request is within 600 seconds of that acquisition and carries it too.
C4_TokenReuse ==
  \A t \in Threads :
    request[t] # NoRequest =>
      /\ Has(request[t].headers, "Authorization")
      /\ request[t].headers["Authorization"] = "Bearer " \o oauth.token
      /\ oauth.token \in Tokens
      /\ traffic[t].token = 0 => locals[t].now - oauth.at[1] <= 600

\* a call later than the acquisition reused the stored token
C4_Witness ==
  \E t \in Threads :
    /\ request[t] # NoRequest
    /\ traffic[t].token = 0
    /\ locals[t].now > oauth.at[1]
    /\ request[t].headers["Authorization"] = "Bearer " \o client._access_token

\* C5: the data-plane request of a call is issued only after the token check of
\* that call has completed; a rejected token request ends the call with
\* AuthenticationError and without any data-plane request.
C5_DataCallAfterTokenCheck ==
  \A t \in Threads :
    /\ pc[t] = "token_request" => traffic[t].data = 0
    /\ (res[t].plane = "token" /\ res[t].status_code # 200) =>
         /\ outcome[t] = AuthenticationError
         /\ pc[t] = "idle"
         /\ traffic[t].data = 0
         /\ request[t] = NoRequest
    /\ traffic[t].data > 0 => op_token[t] = client._access_token

\* a call ended by a rejected token request
C5_Witness ==
  \E t \in Threads :
    /\ outcome[t] = AuthenticationError
    /\ traffic[t].token = 1
    /\ traffic[t].data = 0

----------------------------------------------------------------------------
(* Properties of the data-plane requests *)

\* C6: a data-plane response whose status is outside the accepted set of the
\* operation ends the call with RequestError: the body is not parsed, nothing
\* is shaped, nothing is returned.
C6_RequestFailure ==
  \A t \in Threads :
    (res[t].plane = "data" /\ res[t].status_code \notin request[t].accepted) =>
      /\ outcome[t] = RequestError(request[t])
      /\ res[t].json = NotParsed
      /\ traffic[t].json = 0
      /\ traffic[t].shaped = 0

\* a GET answered 201, which only the POST and DELETE operations accept
C6_Witness ==
  \E t \in Threads :
    /\ request[t].method = "GET"
    /\ res[t].plane = "data"
    /\ res[t].status_code = 201
    /\ outcome[t] = RequestError(request[t])

\* C7: every data-plane request carries the query parameter gw-dev-app-key set
\* to the application key of the client.
C7_AppKeyOnEveryRequest ==
  \A t \in Threads :
    request[t] # NoRequest =>
      /\ Has(request[t].params, "gw-dev-app-key")
      /\ request[t].params["gw-dev-app-key"] = client._app_key

\* the date arguments of an operation: <<argument, where it is sent, its name
\* on the wire>>
DateFields(op) ==
  CASE op = "get_extrato_programa_governo" ->
         {<<"start_date", "params", "startDate">>, <<"end_date", "params", "endDate">>}
    [] op \in {"get_documento_despesas_programa_governo",
               "get_documento_despesas_prestacao_contas"} ->
         {<<"booking_date", "params", "bookingDate">>}
    [] op \in {"get_lancamentos_atualizados", "get_sublancamentos_atualizados"} ->
         {<<"data_inicio", "params", "dataInicio">>, <<"data_fim", "params", "dataFim">>}
    [] op = "post_identificacao_lancamento_credito" ->
         {<<"data_lancamento", "data", "dataLancamento">>}
    [] OTHER -> {}

\* the YYYY-MM-DD string of a date argument
DateString(v) ==
  IF v.type = "str" THEN Join(v.chars)
  ELSE ZeroPad(v.year, 4) \o "-" \o ZeroPad(v.month, 2) \o "-" \o ZeroPad(v.day, 2)

\* C8: the query parameter or body field that carries a date argument is the
\* YYYY-MM-DD string of that date, never empty or absent.
C8_DateParameters ==
  \A t \in Threads :
    request[t] # NoRequest =>
      \A f \in DateFields(call[t].op) :
        /\ Has(request[t][f[2]], f[3])
        /\ request[t][f[2]][f[3]] = DateString(call[t].args[f[1]])

\* C9 as stated: the two POST operations and the DELETE operation each send
\* Content-Type: application/json and a request body, besides the Bearer header.
C9_MutatingSendJsonBody ==
  \A t \in Threads :
    request[t].method \in {"POST", "DELETE"} =>
      /\ Has(request[t].headers, "Authorization")
      /\ Has(request[t].headers, "Content-Type")
      /\ request[t].headers["Content-Type"] = "application/json"
      /\ request[t].data # NotPassed

\* C9 amended: the two POST operations send Content-Type: application/json and
\* a request body built from their arguments, besides the Bearer header; the
\* DELETE operation sends the Bearer header alone, without Content-Type and
\* without a body.
C9_PostSendsBodyDeleteDoesNot ==
  \A t \in Threads :
    /\ request[t].method = "POST" =>
         /\ request[t].headers["Authorization"] = "Bearer " \o op_token[t]
         /\ Has(request[t].headers, "Content-Type")
         /\ request[t].headers["Content-Type"] = "application/json"
         /\ DOMAIN request[t].data # {}
    /\ request[t].method = "DELETE" =>
         /\ request[t].headers["Authorization"] = "Bearer " \o op_token[t]
         /\ DOMAIN request[t].headers = {"Authorization"}
         /\ request[t].data = NotPassed
    /\ request[t].method \in {"POST", "DELETE"} <=>
         call[t].op \in {"post_categoria_despesa_lancamento_credito",
                         "post_identificacao_lancamento_credito",
                         "delete_identificacao_lancamento_credito"}
            /\ request[t] # NoRequest

\* both POST operations and the DELETE operation have sent their request
C9_Witness ==
  \E t \in Threads :
    /\ call[t].op = "post_identificacao_lancamento_credito"
    /\ request[t].method = "POST"
    /\ Has(request[t].data, "dataLancamento")

----------------------------------------------------------------------------
(* Properties of construction *)

\* the credentials available neither as an argument nor in the environment
Missing ==
  {p \in CredentialNames :
     construction.args[p] = None /\ EnvName(p) \notin DOMAIN environ}

\* C10: construction raises a configuration error exactly when some credential
\* is available neither as an argument nor as its environment variable; the
\* error names a missing parameter and its environment variable; otherwise an
\* object of the class is built.
C10_ConstructionFailsOnMissingCredential ==
  construction # NotConstructed =>
    IF Missing # {}
      THEN /\ construction.raised.type = "ValueError"
           /\ \E p \in Missing : construction.raised.quotes = {p, EnvName(p)}
           /\ client = NoObject
      ELSE /\ construction.raised = NoError
           /\ client.class = construction.class
           /\ \A p \in CredentialNames : client["_" \o p] # None

\* only the client secret is missing, and the error names it
C10_Witness ==
  /\ construction # NotConstructed
  /\ Missing = {"client_secret"}
  /\ construction.raised = ValueError("client_secret", "BB_API_CLIENT_SECRET")


\* C11: for each credential, an explicit constructor argument is the value the
\* client uses, also when the environment variable is set; the environment
\* variable is used only when the argument is not given.
C11_ExplicitArgumentOverridesEnvironment ==
  (construction # NotConstructed /\ construction.raised = NoError) =>
    \A p \in CredentialNames :
      client["_" \o p] = IF construction.args[p] # None
                           THEN ArgValue(construction.args, p)
                           ELSE environ[EnvName(p)]

----------------------------------------------------------------------------
(* Properties of _handle_results *)

\* df is bound to a table
HasTable == shaping.pc \in {"insert", "explode", "rename", "returned"}

\* the cell of row r of df under the column labelled column
Cell(df, r, column) == df.rows[r][IndexOf(df.columns, column)]

\* the label a column has after the rename
Renamed(column) ==
  IF column \in DOMAIN shaping.rename_dict THEN shaping.rename_dict[column]
  ELSE column

\* the label of a column of the data in df as it stands
Label(column) == IF shaping.pc = "returned" THEN Renamed(column) ELSE column

\* the insertable keys assigned so far
Inserted == {shaping.insertables[n] : n \in 1..shaping.inserted}

\* C12: with a main list key, the table before any explode has one row per
\* element of data[main_list], in the order of the list, and each row holds
\* the fields of its element (under every key that no insertable has taken).
C12_RowSetExtraction ==
  (HasTable /\ shaping.exploded = 0 /\ shaping.main_list # None) =>
    LET items == Subscript(shaping.data, shaping.main_list).list
    IN /\ Len(shaping.df.rows) = Len(items)
       /\ \A r \in 1..Len(items) : \A i \in 1..Len(items[r].dict) :
            items[r].dict[i].k \notin Inserted =>
              Cell(shaping.df, r, Label(items[r].dict[i].k)) = items[r].dict[i].v

\* {"items": [{"a": 1, ...}, {"a": 2, ...}]} has given two rows, a = 1 and 2,
\* and the insertables are in
C12_Witness ==
  /\ shaping.pc = "explode"
  /\ shaping.exploded = 0
  /\ shaping.inserted = 2
  /\ shaping.insertables = <<"total", "page">>
  /\ shaping.main_list = "items"
  /\ Len(shaping.df.rows) = 2
  /\ Cell(shaping.df, 1, "a") = Scalar("1")
  /\ Cell(shaping.df, 2, "a") = Scalar("2")

\* a dict whose values are all scalars, and that has one at least
IsMappingOfScalars(x) ==
  /\ IsDict(x)
  /\ x.dict # <<>>
  /\ \A i \in 1..Len(x.dict) : ~IsList(x.dict[i].v) /\ ~IsDict(x.dict[i].v)

\* C13: without a main list key, a mapping whose values are all scalars is
\* shaped into a table of exactly one row, with one column per key.
C13_OneRowFromMapping ==
  (shaping.pc # "called" /\ shaping.main_list = None
     /\ IsMappingOfScalars(shaping.data) /\ shaping.inserted = 0) =>
    /\ shaping.pc # "raised"
    /\ Len(shaping.df.rows) = 1
    /\ Len(shaping.df.columns) = Len(shaping.data.dict)

\* C14: every row of the table carries, under each insertable key inserted so
\* far, the value data[k] of the top level of the response.
C14_BroadcastInsertion ==
  HasTable =>
    \A i \in 1..shaping.inserted : \A r \in 1..Len(shaping.df.rows) :
      Cell(shaping.df, r, Label(shaping.insertables[i]))
        = Subscript(shaping.data, shaping.insertables[i])

\* {"items": [.., ..], "total": 5, "page": 1} has been shaped and returned
\* with total = 5 on all of its rows, which are two or more
C14_Witness ==
  /\ shaping.pc = "returned"
  /\ shaping.insertables = <<"total", "page">>
  /\ shaping.rename_dict = <<>>
  /\ Len(shaping.df.rows) >= 2
  /\ \A r \in 1..Len(shaping.df.rows) : Cell(shaping.df, r, "total") = Scalar("5")

\* the insertable keys that the response does not have
AbsentInsertables ==
  {i \in 1..Len(shaping.insertables) : ~HasKey(shaping.data, shaping.insertables[i])}

\* C15: when an insertable key is absent from the response, the call never
\* gets past the insertion loop and returns no table; the loop is left at the
\* first absent key, by the KeyError of that key.
C15_MissingInsertableRaises ==
  (shaping.pc # "called" /\ AbsentInsertables # {}) =>
    LET first == CHOOSE i \in AbsentInsertables : \A j \in AbsentInsertables : i <= j
    IN /\ shaping.pc \in {"insert", "raised"}
       /\ shaping.inserted <= first
       /\ shaping.inserted = first =>
            /\ shaping.pc = "raised"
            /\ shaping.df = KeyError(shaping.insertables[first])

\* total was inserted and page, which the response lacks, raised KeyError
C15_Witness ==
  /\ shaping.pc = "raised"
  /\ shaping.insertables = <<"total", "page">>
  /\ shaping.inserted = 2
  /\ HasKey(shaping.data, "total")
  /\ shaping.df = KeyError("page")

RECURSIVE SumTo(_, _)
\* counts[1] + ... + counts[r]
SumTo(counts, r) == IF r = 0 THEN 0 ELSE SumTo(counts, r - 1) + counts[r]

\* one iteration of the explode loop that has left a table
ExplodeStep ==
  /\ shaping.pc = "explode"
  /\ shaping'.exploded = shaping.exploded + 1
  /\ ~IsRaised(shaping'.df)

\* the position in df of the column the next iteration explodes
ExplodedAt == IndexOf(shaping.df.columns, shaping.explodeables[shaping.exploded + 1])

\* the cells of that column, row by row
ExplodedCells == [r \in 1..Len(shaping.df.rows) |-> shaping.df.rows[r][ExplodedAt]]

\* the table after the step is, row of the source after row of the source,
\* counts[r] rows that are row r with cells[r][i] in the exploded column
ExplodedInto(counts, cells) ==
  /\ shaping'.df.columns = shaping.df.columns
  /\ Len(shaping'.df.rows) = SumTo(counts, Len(counts))
  /\ \A r \in 1..Len(counts) : \A i \in 1..counts[r] :
       shaping'.df.rows[SumTo(counts, r - 1) + i]
         = [shaping.df.rows[r] EXCEPT ![ExplodedAt] = cells[r][i]]

\* C16: exploding one column of a table without empty lists in it, a row with
\* a list of N >= 1 elements becomes N consecutive rows, one per element in
\* the order of the list, the other columns repeated; a row with another
\* value stays one unchanged row; the rows keep the order of their sources.
C16_ExplodeOneColumn ==
  [][(ExplodeStep /\ \A r \in 1..Len(shaping.df.rows) : ExplodedCells[r] # List(<<>>)) =>
       ExplodedInto([r \in 1..Len(shaping.df.rows) |->
                       IF IsList(ExplodedCells[r]) THEN Len(ExplodedCells[r].list) ELSE 1],
                    [r \in 1..Len(shaping.df.rows) |->
                       IF IsList(ExplodedCells[r]) THEN ExplodedCells[r].list
                       ELSE <<ExplodedCells[r]>>])]_vars

\* the main list of the response
Items == Subscript(shaping.data, shaping.main_list).list

\* {"b": [10, 20]} then {"b": 99} have been exploded on b into three rows
C16_Witness ==
  /\ shaping.pc = "rename"
  /\ shaping.main_list = "items"
  /\ shaping.explodeables = <<"b">>
  /\ Len(Items) = 2
  /\ GetItem(Items[1], "b") = List(<<Scalar("10"), Scalar("20")>>)
  /\ GetItem(Items[2], "b") = Scalar("99")
  /\ Len(shaping.df.rows) = 3
  /\ Cell(shaping.df, 1, "b") = Scalar("10")
  /\ Cell(shaping.df, 2, "b") = Scalar("20")
  /\ Cell(shaping.df, 3, "b") = Scalar("99")

\* C17, as claimed: a row whose value in the exploded column is an empty list
\* contributes no row to the table.
C17_EmptyListRowDropped ==
  [][ExplodeStep =>
       Len(shaping'.df.rows) =
         SumTo([r \in 1..Len(shaping.df.rows) |->
                  IF IsList(ExplodedCells[r]) THEN Len(ExplodedCells[r].list) ELSE 1],
               Len(shaping.df.rows))]_vars

\* C17, amended: a row whose value in the exploded column is an empty list
\* stays one row, with the missing value NaN in that column and its other
\* columns unchanged, in its place among the rows of the other sources.
C17_EmptyListRowKept ==
  [][ExplodeStep =>
       ExplodedInto([r \in 1..Len(shaping.df.rows) |->
                       IF IsList(ExplodedCells[r]) /\ ExplodedCells[r] # List(<<>>)
                         THEN Len(ExplodedCells[r].list) ELSE 1],
                    [r \in 1..Len(shaping.df.rows) |->
                       IF ExplodedCells[r] = List(<<>>) THEN <<NaN>>
                       ELSE IF IsList(ExplodedCells[r]) THEN ExplodedCells[r].list
                       ELSE <<ExplodedCells[r]>>])]_vars

\* {"b": []} then {"b": [10, 20]} have been exploded on b into three rows, the
\* first with NaN under b
C17_Witness ==
  /\ shaping.pc = "rename"
  /\ shaping.main_list = "items"
  /\ shaping.explodeables = <<"b">>
  /\ Len(Items) = 2
  /\ GetItem(Items[1], "b") = List(<<>>)
  /\ GetItem(Items[2], "b") = List(<<Scalar("10"), Scalar("20")>>)
  /\ Len(shaping.df.rows) = 3
  /\ Cell(shaping.df, 1, "b") = NaN
  /\ Cell(shaping.df, 1, "a") = Scalar("1")

\* the elements of the list under key k of element r of the main list
ListOf(r, k) == GetItem(Items[r], k).list

\* every element of the main list has a list with elements under b and under c
AllListsFilled ==
  \A r \in 1..Len(Items) : \A k \in {"b", "c"} :
    /\ IsList(GetItem(Items[r], k))
    /\ GetItem(Items[r], k) # List(<<>>)

\* C18: with the explode keys b then c, each applied to the rows the one
\* before it left, an element with lists under both gives one row for each
\* pair of an element of b and an element of c, b by b and within a b c by c,
\* with its other fields (field a, where no insertable has taken the column)
\* and the inserted values on all of them.
C18_SequentialExplode ==
  (/\ shaping.pc \in {"rename", "returned"}
   /\ shaping.main_list = "items"
   /\ shaping.explodeables = <<"b", "c">>
   /\ AllListsFilled) =>
    LET counts == [r \in 1..Len(Items) |-> Len(ListOf(r, "b")) * Len(ListOf(r, "c"))]
    IN /\ Len(shaping.df.rows) = SumTo(counts, Len(Items))
       /\ \A r \in 1..Len(Items) :
            \A i \in 1..Len(ListOf(r, "b")) : \A j \in 1..Len(ListOf(r, "c")) :
              LET row == SumTo(counts, r - 1) + (i - 1) * Len(ListOf(r, "c")) + j
              IN /\ Cell(shaping.df, row, Label("b")) = ListOf(r, "b")[i]
                 /\ Cell(shaping.df, row, Label("c")) = ListOf(r, "c")[j]
                 /\ "a" \notin Inserted =>
                      Cell(shaping.df, row, Label("a")) = GetItem(Items[r], "a")
                 /\ \A k \in 1..Len(shaping.insertables) :
                      Cell(shaping.df, row, Label(shaping.insertables[k]))
                        = Subscript(shaping.data, shaping.insertables[k])

\* one element with two under b and three under c has been shaped into six rows
C18_Witness ==
  /\ shaping.pc = "returned"
  /\ shaping.main_list = "items"
  /\ shaping.explodeables = <<"b", "c">>
  /\ AllListsFilled
  /\ Len(Items) = 1
  /\ Len(shaping.df.rows) = 6
  /\ Cardinality({<<shaping.df.rows[r][IndexOf(shaping.df.columns, Label("b"))],
                    shaping.df.rows[r][IndexOf(shaping.df.columns, Label("c"))]>> :
                    r \in 1..6}) = 6

\* C19: the rename leaves the number of columns and the rows as they are; a
\* column whose label is a key of rename_dict gets the label mapped to, any
\* other column keeps its label, and a key of rename_dict that labels no
\* column adds none.
C19_RenameTotality ==
  [][shaping.pc = "rename" =>
       /\ Len(shaping'.df.columns) = Len(shaping.df.columns)
       /\ shaping'.df.rows = shaping.df.rows
       /\ \A j \in 1..Len(shaping.df.columns) :
            shaping'.df.columns[j] =
              IF shaping.df.columns[j] \in DOMAIN shaping.rename_dict
                THEN shaping.rename_dict[shaping.df.columns[j]]
                ELSE shaping.df.columns[j]
       /\ \A k \in DOMAIN shaping.rename_dict :
            IndexOf(shaping.df.columns, k) = 0 =>
              IndexOf(shaping'.df.columns, shaping.rename_dict[k]) = 0]_vars

\* a table with columns a, b, c and total was returned with a, b and total
\* renamed, c kept, and no column for the key zz
C19_Witness ==
  /\ shaping.pc = "returned"
  /\ shaping.rename_dict # <<>>
  /\ Len(shaping.df.rows) >= 1
  /\ shaping.df.columns = <<"A", "B", "c", "Total">>
  /\ IndexOf(shaping.df.columns, "ZZ") = 0

\* C20: a response whose main list is empty, and that has every insertable
\* key, is shaped without error into a table without rows, whatever the
\* insertable and explodeable keys.
C20_EmptyMainList ==
  (/\ shaping.pc # "called"
   /\ shaping.main_list # None
   /\ Subscript(shaping.data, shaping.main_list) = List(<<>>)
   /\ AbsentInsertables = {}) =>
    /\ shaping.pc # "raised"
    /\ Len(shaping.df.rows) = 0

----------------------------------------------------------------------------
(* Properties of the operations *)

\* the digits of the identifiers tried, as written
DigitsOnly(v) ==
  CASE v = <<"1", "2", "3", ".", "4", "5", "6", "-", "7", "8">> -> "12345678"
    [] v = <<"1", "2", ".", "3", "4", "5", "/", "0", "0", "0", "1", "-", "7", "8">> ->
         "12345000178"
    [] v = <<"C", "E", "P", " ", "0", "1", "3", "1", "0", "-", "1", "0", "0">> -> "01310100"

\* C21: the sanitizer returns the digits of its input in their order and
\* nothing else ("123.456-78" gives "12345678", "CEP 01310-100" gives
\* "01310100"), and get_agencias_proximas sends the sanitized cnpj and cep.
C21_NumericSanitization ==
  /\ \A v \in CNPJs \cup CEPs : _handle_numeric_string_with_symbols(v) = DigitsOnly(v)
  /\ \A t \in Threads :
       (request[t] # NoRequest /\ call[t].op = "get_agencias_proximas") =>
         /\ request[t].params["cnpj"] = DigitsOnly(call[t].args.cnpj)
         /\ request[t].params["cep"] = DigitsOnly(call[t].args.cep)

\* get_agencias_proximas("123.456-78", "CEP 01310-100") has sent its request
C21_Witness ==
  \E t \in Threads :
    /\ call[t].op = "get_agencias_proximas"
    /\ call[t].args.cnpj = <<"1", "2", "3", ".", "4", "5", "6", "-", "7", "8">>
    /\ request[t] # NoRequest
    /\ request[t].params["cnpj"] = "12345678"
    /\ request[t].params["cep"] = "01310100"

\* the operations that return (df_issuer, df_recipient, df_document)
DocumentOperations ==
  {"get_documento_despesas_programa_governo", "get_documento_despesas_prestacao_contas"}

IsTable(x) == DOMAIN x = {"columns", "rows"}

FirstKeyRead(op) ==
  CASE op = "get_extrato_programa_governo" -> "transactions"
    [] op \in DocumentOperations -> "issuer"
    [] op = "get_extrato_fundos_investimento" -> "extrato"
    [] OTHER -> None

\* C23: a call issues at most one token request and at most one data-plane
\* request; a rejected token request, a rejected data request and a lookup of
\* a key the body lacks each end the call with the error of that failure
\* (the two exceptions raised by the code, the KeyError of the key), and a
\* call that raised has returned nothing.
C23_NoRetries ==
  \A t \in Threads :
    /\ traffic[t].token <= 1
    /\ traffic[t].data <= 1
    /\ (res[t].plane = "token" /\ res[t].status_code # 200) =>
         /\ outcome[t] = AuthenticationError
         /\ traffic[t].data = 0
    /\ (res[t].plane = "data" /\ res[t].status_code \notin request[t].accepted) =>
         outcome[t] = RequestError(request[t])
    /\ (/\ res[t].plane = "data"
        /\ res[t].status_code \in request[t].accepted
        /\ FirstKeyRead(call[t].op) # None
        /\ ~HasKey(res[t].json, FirstKeyRead(call[t].op))) =>
         /\ outcome[t].kind = "raised"
         /\ outcome[t].error = KeyError(FirstKeyRead(call[t].op))
    /\ outcome[t].kind = "raised" =>
         /\ pc[t] = "idle"
         /\ "value" \notin DOMAIN outcome[t]

\* get_extrato_programa_governo was answered 200 with a body without
\* transactions and raised the KeyError, after one request on each plane
C23_Witness ==
  \E t \in Threads :
    /\ call[t].op = "get_extrato_programa_governo"
    /\ res[t].plane = "data"
    /\ res[t].status_code = 200
    /\ outcome[t].kind = "raised"
    /\ outcome[t].type = "KeyError"
    /\ traffic[t].token = 1
    /\ traffic[t].data = 1

\* the operations that both AccountabilityV3RepasseAPI and
\* AccountabilityV3ControleAPI define
SiblingOperations ==
  (Methods("AccountabilityV3RepasseAPI") \cap Methods("AccountabilityV3ControleAPI"))
    \ {"get_agencias_proximas"}

\* the parameters of operation op of class cls
Parameters(cls, op) == DOMAIN (CHOOSE a \in Args(cls, op) : TRUE)

\* C24: the request of an operation that the oversight client shares with the
\* transfer client is not the request the transfer client sends for the same
\* arguments: its path is another one (the transfer path with a
\* /control-agencies or /orgao-controle segment), or it lacks a query
\* parameter of the transfer request.
C24_SiblingPaths ==
  \A t \in Threads :
    (/\ client.class = "AccountabilityV3ControleAPI"
     /\ request[t] # NoRequest
     /\ call[t].op \in SiblingOperations
     /\ Parameters("AccountabilityV3RepasseAPI", call[t].op) = DOMAIN call[t].args) =>
      LET transfer == Invoke("AccountabilityV3RepasseAPI", call[t].op, client,
                             op_token[t], call[t].args)
      IN \/ request[t].url # transfer.url
         \/ /\ DOMAIN request[t].params \subseteq DOMAIN transfer.params
            /\ DOMAIN request[t].params # DOMAIN transfer.params

----------------------------------------------------------------------------
(* Two operations racing on one client *)

\* the stored token is absent or expired at the current time
TokenDue ==
  \/ client._last_access_token_request_timestamp = NoTimestamp
  \/ clock - client._last_access_token_request_timestamp[1] >
       _time_between_access_token_requests

----------------------------------------------------------------------------
(* The time of acquisition *)

\* C26: a successful refresh stores the time read after the token response
\* arrived, not the time read at the start of the token check, and the next
\* call measures its 600 seconds from that stored time.
C26_StampedAfterResponse ==
  [][\A t \in Threads :
       /\ (TokenAnswered(t) /\ res'[t].status_code = 200) =>
            client'._last_access_token_request_timestamp = Timestamp(clock)
       /\ (Calls(t) /\ oauth.at # NoTimestamp) =>
            locals'[t].diff_between_requests = clock - oauth.at[1]]_vars

\* a refresh answered 300 seconds or more after its check read the clock
C26_Witness ==
  \E t \in Threads :
    /\ pc[t] = "checked"
    /\ traffic[t].token = 1
    /\ client._last_access_token_request_timestamp # NoTimestamp
    /\ client._last_access_token_request_timestamp[1] > locals[t].now

----------------------------------------------------------------------------
(* Presence of the token *)

----------------------------------------------------------------------------
(* A rejected data request and the token *)

\* the operation of thread t has just been left by the exception of its
\* status check
DataRejected(t) ==
  /\ pc[t] = "data_request"
  /\ pc'[t] = "idle"
  /\ outcome'[t] = RequestError(request[t])

\* C28: a data request answered with a status the operation does not accept
\* changes neither the token nor the timestamp and sends no token request;
\* the next call, made within 600 seconds of the acquisition, sends no token
\* request either and uses the token the rejected call used.
C28_RejectionKeepsToken ==
  [][\A t \in Threads :
       /\ DataRejected(t) =>
            /\ client'._access_token = client._access_token
            /\ client'._last_access_token_request_timestamp =
                 client._last_access_token_request_timestamp
            /\ traffic'[t].token = traffic[t].token
       /\ (/\ Calls(t)
           /\ call'[t].after_data_rejection
           /\ clock - oauth.at[1] <= _time_between_access_token_requests) =>
            /\ pc'[t] = "checked"
            /\ traffic'[t].token = 0
            /\ client._access_token = op_token[t]]_vars

\* the call after a data request answered 401, made 300 seconds or more after
\* the acquisition, has sent its data request with the same token and without
\* a token request
C28_Witness ==
  \E t \in Threads :
    /\ pc[t] = "data_request"
    /\ traffic[t].token = 0
    /\ res[t].plane = "none"
    /\ call[t].after_data_rejection
    /\ clock > oauth.at[1]
    /\ op_token[t] = oauth.token

----------------------------------------------------------------------------
(* An insertable key that is also a field of the elements *)

\* the keys of the elements of the main list
ElementFields ==
  UNION {{Items[r].dict[i].k : i \in 1..Len(Items[r].dict)} : r \in 1..Len(Items)}

\* C29: an insertable key that is also a field of the elements of the main
\* list takes the column of that field: once it is assigned, the one column
\* of that label holds the top-level value on every row, none of the values
\* of the elements, and the table has one column for each key, not one more.
C29_BroadcastOverridesField ==
  (HasTable /\ shaping.main_list # None) =>
    \A k \in Inserted \cap ElementFields :
      /\ \A r \in 1..Len(shaping.df.rows) :
           Cell(shaping.df, r, Label(k)) = Subscript(shaping.data, k)
      /\ Cardinality({j \in 1..Len(shaping.df.columns) :
                        shaping.df.columns[j] = Label(k)}) = 1
      /\ Len(shaping.df.columns) = Cardinality(ElementFields \cup Inserted)

\* {"items": [{"a": 1, ...}, {"a": 2, ...}], "total": 5, "a": 42} shaped with
\* the insertables total and a: both rows have 42 under a
C29_Witness ==
  /\ shaping.pc = "returned"
  /\ shaping.main_list = "items"
  /\ shaping.insertables = <<"total", "a">>
  /\ shaping.explodeables = <<>>
  /\ Len(Items) = 2
  /\ GetItem(Items[1], "a") = Scalar("1")
  /\ GetItem(Items[2], "a") = Scalar("2")
  /\ Len(shaping.df.rows) = 2
  /\ Cell(shaping.df, 1, Label("a")) = Scalar("42")
  /\ Cell(shaping.df, 2, Label("a")) = Scalar("42")

----------------------------------------------------------------------------
(* The statement of an investment fund *)

\* thread t has the answer of get_extrato_fundos_investimento to an accepted
\* response
FundStatementAnswered(t) ==
  /\ pc[t] = "idle"
  /\ call[t].op = "get_extrato_fundos_investimento"
  /\ res[t].plane = "data"
  /\ res[t].json # NotParsed

\* the four fields of the top of the response and the columns they go to
ProgramColumns ==
  ("codigoProgramaGoverno" :> "Código Programa Governo") @@
  ("nomeProgramaGoverno" :> "Nome Programa Governo") @@
  ("codigoSubProgramaGoverno" :> "Código SubPrograma Governo") @@
  ("nomeSubProgramaGoverno" :> "Nome SubPrograma Governo")

\* C30: the table of an investment-fund statement has one row per entry; the
\* column Valor Cota Extrato holds the valorCota of the statement on every
\* row, the column Valor Cota Lançamento, another column, holds the valorCota
\* of the entry of the row, and the four program and sub-program columns hold
\* the values of the top of the response on every row.  A response whose
\* extrato has no valorCota raises KeyError.
C30_FundStatement ==
  \A t \in Threads :
    FundStatementAnswered(t) =>
      LET extrato == GetItem(res[t].json, "extrato")
          entries == GetItem(extrato, "listaLancamentosExtrato").list
          df == outcome[t].value
      IN IF ~HasKey(extrato, "valorCota")
           THEN /\ outcome[t].kind = "raised"
                /\ outcome[t].type = "KeyError"
           ELSE /\ outcome[t].kind = "returned"
                /\ IsTable(df)
                /\ Len(df.rows) = Len(entries)
                /\ IndexOf(df.columns, "Valor Cota Extrato") # 0
                /\ IndexOf(df.columns, "valorCota") = 0
                /\ IndexOf(df.columns, "valorCotaExtrato") = 0
                /\ \A k \in DOMAIN ProgramColumns : IndexOf(df.columns, ProgramColumns[k]) # 0
                /\ \A r \in 1..Len(df.rows) :
                     /\ IndexOf(df.columns, "Valor Cota Lançamento") # 0
                     /\ IndexOf(df.columns, "Valor Cota Lançamento") #
                          IndexOf(df.columns, "Valor Cota Extrato")
                     /\ Cell(df, r, "Valor Cota Extrato") = GetItem(extrato, "valorCota")
                     /\ Cell(df, r, "Valor Cota Lançamento") = GetItem(entries[r], "valorCota")
                     /\ \A k \in DOMAIN ProgramColumns :
                          Cell(df, r, ProgramColumns[k]) = GetItem(res[t].json, k)

\* a statement of two entries, each with its own valorCota, has been shaped
C30_Witness ==
  \E t \in Threads :
    /\ FundStatementAnswered(t)
    /\ outcome[t].kind = "returned"
    /\ Len(outcome[t].value.rows) = 2
    /\ Cell(outcome[t].value, 1, "Valor Cota Lançamento") = Scalar("valorCota/1")
    /\ Cell(outcome[t].value, 2, "Valor Cota Lançamento") = Scalar("valorCota/2")
    /\ Cell(outcome[t].value, 2, "Valor Cota Extrato") = Scalar("valorCota")
====
